---- MODULE Spec2Model ----
(***************************************************************************)
(* Request-execution engine of fetchT (fetch-t): one logical call, its     *)
(* retry loop (fetchWithRetry), the single attempt (doFetch), the signal   *)
(* composition (configureSignal), the response processing                  *)
(* (processResponse) and the task handle (abort).                          *)
(*                                                                         *)
(* The orchestrator is an async function on a single-threaded event loop:  *)
(* it is suspended at `await fetch(...)` (pc = "flight"), at the awaited    *)
(* body decode (pc = "body") and at `await delay(...)` (pc = "delay").      *)
(* Everything between two suspension points runs atomically, so each       *)
(* action below is one resumption of the async function up to its next     *)
(* suspension, the user callbacks it calls on the way included.            *)
(***************************************************************************)
EXTENDS Integers, FiniteSets, Sequences, TLC

\* Largest retry count explored.
MaxRetries == 2

\* Largest number of chunks a body arrives in.
MaxChunks == 2

ABORT_ERROR == "AbortError"
TIMEOUT_ERROR == "TimeoutError"

\* The responses the transport stub answers with: a status and a body
\* ("valid" and "invalid" say whether the body parses as JSON, "none" is a
\* response without a body, as for 204, "locked" a body whose cancel()
\* rejects).
Responses ==
    {[status |-> 200, body |-> "valid"],
     [status |-> 200, body |-> "invalid"],
     [status |-> 204, body |-> "none"],
     [status |-> 404, body |-> "none"],
     [status |-> 404, body |-> "valid"],
     [status |-> 503, body |-> "none"],
     [status |-> 503, body |-> "locked"]}

\* chunk.byteLength of the chunks a body arrives in.
ChunkSizes == {1, 2}

\* The values of the content-length header: the least, a middle and the
\* greatest number of bytes a body of at most MaxChunks chunks can have.
\* The header need not state the number of bytes the stream delivers (it
\* is the encoded length of a response with a content-encoding, whose
\* stream delivers the decoded bytes).
Lengths == {0, MaxChunks, 2 * MaxChunks}

\* The status codes of the `when` array used when the policy is an array.
WhenCodes == {500, 503}

\* What the caller passes to abort(reason): nothing, a non-Error value,
\* an Error instance (with its own name).
ReasonKinds == {"none", "value", "error"}

(***************************************************************************)
(* Error values.  name/fetchErr/status are what the code inspects          *)
(* (error.name, error instanceof FetchError, error.status); src and tag    *)
(* record where the value came from (http, network, decode, timeout, user, *)
(* ext) and how it was built (default, wrapped, given, raw).               *)
(***************************************************************************)
NoError == [name |-> "none", fetchErr |-> FALSE, status |-> 0, src |-> "none", tag |-> "none"]

FetchError(status) ==
    [name |-> "FetchError", fetchErr |-> TRUE, status |-> status, src |-> "http", tag |-> "given"]

\* fetch() rejects with a TypeError on a network failure.
NetworkError ==
    [name |-> "TypeError", fetchErr |-> FALSE, status |-> 0, src |-> "network", tag |-> "given"]

\* new Error('Response is invalid json while responseType is json')
InvalidJsonError ==
    [name |-> "Error", fetchErr |-> FALSE, status |-> 0, src |-> "decode", tag |-> "given"]

\* An abort reason held by a signal: isError says whether it is an Error
\* instance (DOMException included).
NoReason == [isError |-> FALSE, name |-> "none", src |-> "none", tag |-> "none"]

\* AbortSignal.timeout(ms) aborts with a DOMException named TimeoutError.
TimeoutReason == [isError |-> TRUE, name |-> TIMEOUT_ERROR, src |-> "timeout", tag |-> "default"]

\* wrapAbortReason: an Error named AbortError whose cause is the reason.
wrapAbortReason(reason) ==
    [name |-> ABORT_ERROR, fetchErr |-> FALSE, status |-> 0, src |-> reason.src, tag |-> "wrapped"]

\* An Error reason taken as the failure, unchanged.
ReasonAsError(reason) ==
    [name |-> reason.name, fetchErr |-> FALSE, status |-> 0, src |-> reason.src, tag |-> reason.tag]

\* catch (err) { Err(err instanceof Error ? err : wrapAbortReason(err)) }
CaughtError(reason) ==
    IF reason.isError THEN ReasonAsError(reason) ELSE wrapAbortReason(reason)

TaskAbortReason_WrapsErrors(rk) ==
    IF rk \in {"error", "value"}
    THEN [isError |-> TRUE, name |-> ABORT_ERROR, src |-> "user", tag |-> "wrapped"]
    ELSE [isError |-> TRUE, name |-> ABORT_ERROR, src |-> "user", tag |-> "default"]

\* The reason task.abort(reason) hands to userController.abort.
TaskAbortReason(rk) ==
    IF rk = "error"
    THEN [isError |-> TRUE, name |-> "CustomError", src |-> "user", tag |-> "given"]
    ELSE IF rk = "value"
    THEN [isError |-> TRUE, name |-> ABORT_ERROR, src |-> "user", tag |-> "wrapped"]
    ELSE [isError |-> TRUE, name |-> ABORT_ERROR, src |-> "user", tag |-> "default"]

\* The reason of the caller's own controller behind init.signal:
\* controller.abort(reason) stores the reason as given.
ExternalAbortReason(rk) ==
    IF rk = "error"
    THEN [isError |-> TRUE, name |-> "CustomError", src |-> "ext", tag |-> "given"]
    ELSE IF rk = "value"
    THEN [isError |-> FALSE, name |-> "none", src |-> "ext", tag |-> "raw"]
    ELSE [isError |-> TRUE, name |-> ABORT_ERROR, src |-> "ext", tag |-> "default"]

ControllerAbort_LastWins(c, reason) == [aborted |-> TRUE, reason |-> reason]

\* AbortController.abort(reason): a signal fires once and keeps its reason.
ControllerAbort(c, reason) ==
    IF c.aborted THEN c ELSE [aborted |-> TRUE, reason |-> reason]

NotAborted == [aborted |-> FALSE, reason |-> NoReason]

\* response.ok
IsOk(status) == status >= 200 /\ status <= 299

(***************************************************************************)
(* Request configurations that pass validateOptions.                       *)
(***************************************************************************)
Configs ==
    [abortable    : BOOLEAN,
     hasUserSignal: BOOLEAN,
     hasTimeout   : BOOLEAN,
     retries      : 0..MaxRetries,
     when         : {"none", "array", "fn"},
     delay        : {"zero", "pos", "fn"},
     hasOnRetry   : BOOLEAN,
     responseType : {"json", "text", "raw"}]

(***************************************************************************)
(* Raw option values, as the caller passes them: the result of typeof and  *)
(* the value.  Numbers are the literals the checks can tell apart.         *)
(***************************************************************************)
Undefined == [type |-> "undefined", val |-> "undefined"]
Null == [type |-> "object", val |-> "null"]
Num(v) == [type |-> "number", val |-> v]
Str(v) == [type |-> "string", val |-> v]
Func == [type |-> "function", val |-> "function"]
Arr == [type |-> "object", val |-> "array"]
Obj == [type |-> "object", val |-> "object"]
True == [type |-> "boolean", val |-> "true"]

NumberLiterals == {"-1", "0", "1", "1.5", "NaN"}

\* x == null
IsNullish(x) == x = Undefined \/ x = Null

\* the truthiness test of `retryOptions && ...` and `if (abortable)`
IsTruthy(x) ==
    ~IsNullish(x) /\ x # Num("0") /\ x # Num("NaN") /\ x # Str("")

\* Number.isInteger(x)
NumberIsInteger(x) == x.type = "number" /\ x.val \in {"-1", "0", "1"}

\* x < 0, x <= 0 and x > 0 on numbers: every comparison with NaN is false.
LessThanZero(x) == x.val = "-1"
AtMostZero(x) == x.val \in {"-1", "0"}
GreaterThanZero(x) == x.val \in {"1", "1.5"}

\* the retry count as a number of the model
ToCount(x) == IF x.val = "1" THEN 1 ELSE 0

\* The addresses a caller passes: a URL instance, an absolute URL string,
\* a relative one, a string no base can make valid.
Urls == {"URL", "absolute", "relative", "malformed"}

\* validateUrl: "ok", or the TypeError it throws.  new URL(url, base)
\* resolves a relative URL only against a base (location.href).
validateUrl(url, hasLocation) ==
    IF url = "URL" THEN "ok"
    ELSE IF url = "absolute" THEN "ok"
    ELSE IF url = "relative" /\ hasLocation THEN "ok"
    ELSE "TypeError"

ValidTypes == {Str("text"), Str("arraybuffer"), Str("blob"), Str("json"), Str("bytes"), Str("stream")}

ParseRetry_EmptyObjectRetries(init) ==
    LET retryOptions == IF init.retry = Undefined THEN Num("0") ELSE init.retry
    IN IF retryOptions.type = "number"
       THEN [retries |-> retryOptions, delay |-> Num("0"),
             when |-> Undefined, onRetry |-> Undefined]
       ELSE IF IsTruthy(retryOptions) /\ retryOptions.type = "object"
       THEN [retries |-> IF IsNullish(init.retries) THEN Num("1") ELSE init.retries,
             delay   |-> IF IsNullish(init.delay) THEN Num("0") ELSE init.delay,
             when    |-> init.when,
             onRetry |-> init.onRetry]
       ELSE [retries |-> Num("0"), delay |-> Num("0"),
             when |-> Undefined, onRetry |-> Undefined]

ParseRetry_CoercedCount(init) ==
    LET retryOptions == IF init.retry = Undefined THEN Num("0") ELSE init.retry
    IN IF retryOptions.type \in {"number", "string"}
       THEN [retries |-> Num(retryOptions.val), delay |-> Num("0"),
             when |-> Undefined, onRetry |-> Undefined]
       ELSE IF IsTruthy(retryOptions) /\ retryOptions.type = "object"
       THEN [retries |-> IF IsNullish(init.retries) THEN Num("0") ELSE init.retries,
             delay   |-> IF IsNullish(init.delay) THEN Num("0") ELSE init.delay,
             when    |-> init.when,
             onRetry |-> init.onRetry]
       ELSE [retries |-> Num("0"), delay |-> Num("0"),
             when |-> Undefined, onRetry |-> Undefined]

\* validateOptions, "Parse retry options": retry defaults to 0; a number is
\* the count; a (non-null) object gives the fields; anything else leaves
\* the defaults.  The fields of a retry object are init.retries,
\* init.delay, init.when, init.onRetry.
ParseRetry(init) ==
    LET retryOptions == IF init.retry = Undefined THEN Num("0") ELSE init.retry
    IN IF retryOptions.type = "number"
       THEN [retries |-> retryOptions, delay |-> Num("0"),
             when |-> Undefined, onRetry |-> Undefined]
       ELSE IF IsTruthy(retryOptions) /\ retryOptions.type = "object"
       THEN [retries |-> IF IsNullish(init.retries) THEN Num("0") ELSE init.retries,
             delay   |-> IF IsNullish(init.delay) THEN Num("0") ELSE init.delay,
             when    |-> init.when,
             onRetry |-> init.onRetry]
       ELSE [retries |-> Num("0"), delay |-> Num("0"),
             when |-> Undefined, onRetry |-> Undefined]

\* validateOptions: the error of the first check that fails ("none" when
\* all pass) and the parsed retry options.
validateOptions(init) ==
    LET p == ParseRetry(init)
        error ==
            IF ~IsNullish(init.responseType) /\ init.responseType \notin ValidTypes
            THEN "TypeError"
            ELSE IF ~IsNullish(init.timeout) /\ init.timeout.type # "number"
            THEN "TypeError"
            ELSE IF ~IsNullish(init.timeout) /\ AtMostZero(init.timeout)
            THEN "Error"
            ELSE IF ~IsNullish(init.onProgress) /\ init.onProgress.type # "function"
            THEN "TypeError"
            ELSE IF ~IsNullish(init.onChunk) /\ init.onChunk.type # "function"
            THEN "TypeError"
            ELSE IF ~NumberIsInteger(p.retries)
            THEN "TypeError"
            ELSE IF LessThanZero(p.retries)
            THEN "Error"
            ELSE IF p.delay.type = "number" /\ LessThanZero(p.delay)
            THEN "Error"
            ELSE IF p.delay.type # "number" /\ p.delay.type # "function"
            THEN "TypeError"
            ELSE IF ~IsNullish(p.when) /\ p.when # Arr /\ p.when.type # "function"
            THEN "TypeError"
            ELSE IF ~IsNullish(p.onRetry) /\ p.onRetry.type # "function"
            THEN "TypeError"
            ELSE "none"
    IN [error |-> error, retries |-> p.retries, delay |-> p.delay,
        when |-> p.when, onRetry |-> p.onRetry]

\* What fetchT keeps of the options once they are validated: the
\* destructured init and the parsed retry options, in the terms of Configs.
MakeConfig(init, v) ==
    [abortable     |-> IsTruthy(init.abortable),
     hasUserSignal |-> IsTruthy(init.signal),
     hasTimeout    |-> init.timeout.type = "number",
     retries       |-> ToCount(v.retries),
     when          |-> IF IsNullish(v.when) THEN "none"
                       ELSE IF v.when = Arr THEN "array" ELSE "fn",
     delay         |-> IF v.delay.type = "function" THEN "fn"
                       ELSE IF GreaterThanZero(v.delay) THEN "pos" ELSE "zero",
     hasOnRetry    |-> ~IsNullish(v.onRetry),
     responseType  |-> IF init.responseType = Str("json") THEN "json"
                       ELSE IF init.responseType = Str("text") THEN "text" ELSE "raw"]

\* The onProgress and onChunk callbacks of the call.
MakeHooks(init) ==
    [onProgress |-> ~IsNullish(init.onProgress), onChunk |-> ~IsNullish(init.onChunk)]

NoHooks == [onProgress |-> FALSE, onChunk |-> FALSE]

\* AbortSignal.timeout(ms) throws a TypeError for a value that is not a
\* finite number in range (WebIDL [EnforceRange] unsigned long long).
AbortSignalTimeoutThrows(timeout) == timeout = Num("NaN")

\* The options of a call that passes none.
NoOptions ==
    [url |-> "absolute", hasLocation |-> FALSE, responseType |-> Undefined,
     timeout |-> Undefined, retry |-> Undefined, retries |-> Undefined,
     delay |-> Undefined, when |-> Undefined, onRetry |-> Undefined,
     onProgress |-> Undefined, onChunk |-> Undefined, abortable |-> Undefined,
     signal |-> Undefined]

\* The configuration before fetchT has validated the options.
NoConfig ==
    [abortable |-> FALSE, hasUserSignal |-> FALSE, hasTimeout |-> FALSE,
     retries |-> 0, when |-> "none", delay |-> "zero", hasOnRetry |-> FALSE,
     responseType |-> "raw"]

VARIABLES
    cfg,        \* the validated configuration of the call
    pc,         \* "call", "thrown", "init", "flight", "body", "delay", "done"
    attempt,    \* fetchWithRetry: let attempt
    lastError,  \* fetchWithRetry: let lastError
    calls,      \* number of fetch() invocations of this call
    liveCalls,  \* those invoked with a signal that had not fired yet
    ctrl,       \* userController.signal (aborted, reason)
    ext,        \* the caller's init.signal (aborted, reason)
    sig,        \* the signal handed to the transport for the current attempt
    body,       \* the body of the response being decoded
    outcome,    \* the settled value of the returned promise
    exit,       \* how fetchWithRetry ended: "ok", "exhausted", "ineligible",
                \* "abortBeforeDelay", "abortAfterDelay", "threw"
    nOnRetry,   \* number of onRetry invocations
    nWhen,      \* number of `when` predicate invocations
    snap,       \* where the first task.abort() was issued from, and the
                \* counters at that moment
    result,     \* fetchWithRetry: const result = await doFetch(), the most
                \* recent one
    raw,        \* the arguments of fetchT as the caller passed them
    hooks,      \* which of onProgress and onChunk the call has
    rd,         \* setupProgressCallbacks: the reader of each attempt's
                \* cloned body and the notifications it has delivered
    peer,       \* a second call made by the same program while this one runs
    obs         \* history kept for the properties, of what obs.on names:
                \* "throw" whether a guarded callback has thrown, "abort" the
                \* first abort() that came after another one, "response" the
                \* latest response of the transport, "value" what the Ok
                \* result wraps, "bytes" the byte counts reported to
                \* onProgress, "order" the calls of onChunk and onProgress
                \* of each reader, in the order they are made

vars == <<cfg, pc, attempt, lastError, calls, liveCalls, ctrl, ext, sig, body,
          outcome, exit, nOnRetry, nWhen, snap, result, raw, peer, hooks, rd, obs>>

NoSignal == [src |-> {}, fired |-> "none"]
Pending == [kind |-> "pending", err |-> NoError]
OkResult == [kind |-> "ok", err |-> NoError]
ErrResult(e) == [kind |-> "err", err |-> e]
Rejected == [kind |-> "rejected", err |-> NoError]
NoSnap == [at |-> "none", calls |-> 0, live |-> 0, onRetry |-> 0]

\* The attempts of a call, by the number of their fetch() invocation.
CallIds == 1..(MaxRetries + 1)

\* The reader of one attempt: st is "none" (never set up), "open", "ended"
\* (the stream was read to its end) or "failed" (the loop was left by an
\* exception); left is the number of chunks still to come, known whether
\* the response has a content-length; chunks, progress and noLength count
\* the calls of onChunk, of onProgress(Ok(..)) and of onProgress(Err(..)).
NoReader ==
    [st |-> "none", left |-> 0, known |-> FALSE, chunks |-> 0, progress |-> 0,
     noLength |-> 0]

NoResponse == [status |-> 0, body |-> "none", at |-> 0]

\* What one reader has reported: total and done are totalByteLength and
\* completedByteLength of its latest onProgress(Ok(..)), seen is the number
\* of bytes and n the number of chunks its stream has delivered.
NoBytes == [total |-> 0, done |-> 0, seen |-> 0, n |-> 0]

ObsOff ==
    [on |-> {}, thrown |-> FALSE, again |-> "none", differs |-> FALSE,
     resp |-> NoResponse, val |-> "none", bytes |-> [i \in CallIds |-> NoBytes],
     log |-> [i \in CallIds |-> <<>>]]

\* The history with the recording of `what` switched on.
Recording(what) == [ObsOff EXCEPT !.on = what]

\* The second call, fetchT(url, { abortable: true }): pc is "none" before
\* it is made, then "flight" and "done"; ctrl is the signal of its own
\* userController, fired whether the signal handed to its transport call
\* has fired, asked whether abort() of its task has been called.
NoPeer ==
    [pc |-> "none", ctrl |-> NotAborted, fired |-> FALSE, calls |-> 0,
     attempt |-> 0, outcome |-> Pending, asked |-> FALSE]

\* The state of a call that has not run yet.
Fresh ==
    /\ attempt = 0
    /\ lastError = NoError
    /\ calls = 0
    /\ liveCalls = 0
    /\ ctrl = NotAborted
    /\ ext = NotAborted
    /\ sig = NoSignal
    /\ body = "none"
    /\ outcome = Pending
    /\ exit = "none"
    /\ nOnRetry = 0
    /\ nWhen = 0
    /\ snap = NoSnap
    /\ result = Pending
    /\ rd = [i \in CallIds |-> NoReader]
    /\ peer = NoPeer

\* The retry engine on every validated configuration, without onProgress
\* and onChunk.
Init ==
    /\ cfg \in Configs
    /\ pc = "init"
    /\ raw = NoOptions
    /\ hooks = NoHooks
    /\ obs = ObsOff
    /\ Fresh

(***************************************************************************)
(* Signal composition (configureSignal).                                   *)
(***************************************************************************)
\* The signals pushed for one attempt: init.signal, the master token's
\* signal iff abortable, a fresh timeout signal iff timeout is set.
SignalSources_NoExternal(c) ==
    (IF c.abortable THEN {"user"} ELSE {})
        \cup (IF c.hasTimeout THEN {"timeout"} ELSE {})

SignalSources_NoMaster(c) ==
    (IF c.hasUserSignal THEN {"ext"} ELSE {})
        \cup (IF c.hasTimeout THEN {"timeout"} ELSE {})

SignalSources(c) ==
    (IF c.hasUserSignal THEN {"ext"} ELSE {})
        \cup (IF c.abortable THEN {"user"} ELSE {})
        \cup (IF c.hasTimeout THEN {"timeout"} ELSE {})

configureSignal_SharedTimeout(c, e) ==
    LET srcs == SignalSources(cfg)
    IN [src   |-> srcs,
        fired |-> IF "ext" \in srcs /\ e.aborted THEN "ext"
                  ELSE IF "user" \in srcs /\ c.aborted THEN "user"
                  ELSE IF "timeout" \in srcs /\ sig.fired = "timeout" THEN "timeout"
                  ELSE "none"]

\* The signal handed to fetch().  A source that has fired already makes
\* the composite fired from the start (the first one in push order gives
\* the reason); the timeout signal is new and has not fired.
configureSignal(c, e) ==
    LET srcs == SignalSources(cfg)
    IN [src   |-> srcs,
        fired |-> IF "ext" \in srcs /\ e.aborted THEN "ext"
                  ELSE IF "user" \in srcs /\ c.aborted THEN "user"
                  ELSE "none"]

\* A source fires: the composite takes the reason of the first to fire.
Fire(s, source) ==
    IF source \in s.src /\ s.fired = "none" THEN [s EXCEPT !.fired = source] ELSE s

\* signal.reason of the composite once fired.
FiredReason(s, c, e) ==
    IF s.fired = "ext" THEN e.reason
    ELSE IF s.fired = "user" THEN c.reason
    ELSE TimeoutReason

(***************************************************************************)
(* Retry policy (shouldRetry, getRetryDelay, the loop condition and the    *)
(* two abort checkpoints of fetchWithRetry).                               *)
(***************************************************************************)
shouldRetry_DefaultAll(error, att, ans) ==
    IF error.name = ABORT_ERROR
    THEN [retry |-> "no", asked |-> FALSE]
    ELSE IF cfg.when = "none"
    THEN [retry |-> "yes", asked |-> FALSE]
    ELSE IF cfg.when = "array"
    THEN [retry |-> IF error.fetchErr /\ error.status \in WhenCodes THEN "yes" ELSE "no",
          asked |-> FALSE]
    ELSE [retry |-> IF ans = "true" THEN "yes" ELSE IF ans = "false" THEN "no" ELSE "throw",
          asked |-> TRUE]

shouldRetry_ArrayAnyStatus(error, att, ans) ==
    IF error.name = ABORT_ERROR
    THEN [retry |-> "no", asked |-> FALSE]
    ELSE IF cfg.when = "none"
    THEN [retry |-> IF ~error.fetchErr THEN "yes" ELSE "no", asked |-> FALSE]
    ELSE IF cfg.when = "array"
    THEN [retry |-> IF error.fetchErr THEN "yes" ELSE "no", asked |-> FALSE]
    ELSE [retry |-> IF ans = "true" THEN "yes" ELSE IF ans = "false" THEN "no" ELSE "throw",
          asked |-> TRUE]

shouldRetry_DefaultNetworkOnly(error, att, ans) ==
    IF error.name = ABORT_ERROR
    THEN [retry |-> "no", asked |-> FALSE]
    ELSE IF cfg.when = "none"
    THEN [retry |-> IF error.name = "TypeError" THEN "yes" ELSE "no", asked |-> FALSE]
    ELSE IF cfg.when = "array"
    THEN [retry |-> IF error.fetchErr /\ error.status \in WhenCodes THEN "yes" ELSE "no",
          asked |-> FALSE]
    ELSE [retry |-> IF ans = "true" THEN "yes" ELSE IF ans = "false" THEN "no" ELSE "throw",
          asked |-> TRUE]

shouldRetry_TimeoutOptIn(error, att, ans) ==
    IF error.name = ABORT_ERROR
    THEN [retry |-> "no", asked |-> FALSE]
    ELSE IF cfg.when = "none"
    THEN [retry |-> IF ~error.fetchErr /\ error.name # TIMEOUT_ERROR THEN "yes" ELSE "no",
          asked |-> FALSE]
    ELSE IF cfg.when = "array"
    THEN [retry |-> IF error.fetchErr /\ error.status \in WhenCodes THEN "yes" ELSE "no",
          asked |-> FALSE]
    ELSE [retry |-> IF ans = "true" THEN "yes" ELSE IF ans = "false" THEN "no" ELSE "throw",
          asked |-> TRUE]

\* shouldRetry(error, attempt); ans is what the `when` predicate does when
\* it is called ("true", "false", "throw").  retry is the answer, asked
\* says whether the predicate was called.
shouldRetry(error, att, ans) ==
    IF error.name = ABORT_ERROR
    THEN [retry |-> "no", asked |-> FALSE]
    ELSE IF cfg.when = "none"
    THEN [retry |-> IF ~error.fetchErr THEN "yes" ELSE "no", asked |-> FALSE]
    ELSE IF cfg.when = "array"
    THEN [retry |-> IF error.fetchErr /\ error.status \in WhenCodes THEN "yes" ELSE "no",
          asked |-> FALSE]
    ELSE [retry |-> IF ans = "true" THEN "yes" ELSE IF ans = "false" THEN "no" ELSE "throw",
          asked |-> TRUE]

WithinBudget_OneMore(att) == att <= cfg.retries + 1

\* while (attempt <= retries && ...)
WithinBudget(att) == att <= cfg.retries

getRetryDelay_NoPause(att, ans) ==
    IF cfg.delay = "fn" THEN ans ELSE "zero"

\* getRetryDelay(attempt) > 0; ans is what the delay function does when the
\* delay is a function ("zero", "pos", "throw").
getRetryDelay(att, ans) ==
    IF cfg.delay = "fn" THEN ans ELSE cfg.delay

AbortedBeforeDelay_Unchecked(c) == FALSE

\* if (userController?.signal.aborted) at the top of a retry iteration
AbortedBeforeDelay(c) == cfg.abortable /\ c.aborted

AbortedAfterDelay_Unchecked(c) == FALSE

\* if (userController?.signal.aborted) after await delay(delayMs)
AbortedAfterDelay(c) == cfg.abortable /\ c.aborted

\* What the user callbacks reached in one resumption do: the answer of the
\* `when` predicate and of the delay function, whether onRetry throws, and
\* which of them (if any) is the first to call task.abort(abortReason);
\* only a holder of the task can, and a later abort() changes nothing.
\* stage "fail" is a resumption that starts with a failed attempt, stage
\* "retry" one that starts after the delay; no callback is called once the
\* retry budget is used up.
Callbacks(c, stage, inBudget) ==
    LET useWhen  == stage = "fail" /\ inBudget /\ c.when = "fn"
        useDelay == stage = "fail" /\ inBudget /\ c.delay = "fn"
        useRetry == inBudget /\ c.hasOnRetry
        quiet    == [whenAns    : IF useWhen THEN {"true", "false", "throw"} ELSE {"true"},
                     delayAns   : IF useDelay THEN {"zero", "pos", "throw"} ELSE {"zero"},
                     retryThrow : IF useRetry THEN BOOLEAN ELSE {FALSE},
                     abortIn    : {"no"},
                     abortReason: {"none"}]
        aborting == [whenAns    : IF useWhen THEN {"true", "false", "throw"} ELSE {"true"},
                     delayAns   : IF useDelay THEN {"zero", "pos", "throw"} ELSE {"zero"},
                     retryThrow : IF useRetry THEN BOOLEAN ELSE {FALSE},
                     abortIn    : (IF useWhen THEN {"when"} ELSE {})
                                      \cup (IF useDelay THEN {"delayFn"} ELSE {})
                                      \cup (IF useRetry THEN {"onRetry"} ELSE {}),
                     abortReason: ReasonKinds]
    IN IF c.abortable THEN quiet \cup aborting ELSE quiet

\* task.abort(cb.abortReason) called from inside the callback `who`.
AbortIn(c, cb, who) ==
    IF cb.abortIn = who THEN ControllerAbort(c, TaskAbortReason(cb.abortReason)) ELSE c

(***************************************************************************)
(* fetchWithRetry, from the point where doFetch has returned.              *)
(***************************************************************************)
SnapAt(at, nr) ==
    IF at = "none" THEN snap
    ELSE [at |-> at, calls |-> calls, live |-> liveCalls, onRetry |-> nr]

\* return from fetchWithRetry (or the async function throws: Rejected)
Settle(o, ex, att, err, c, nw, at) ==
    /\ pc' = "done"
    /\ outcome' = o
    /\ exit' = ex
    /\ attempt' = att
    /\ lastError' = err
    /\ ctrl' = c
    /\ nWhen' = nw
    /\ snap' = SnapAt(at, nOnRetry)
    /\ body' = "none"
    /\ UNCHANGED <<calls, liveCalls, nOnRetry, sig>>

\* await delay(delayMs)
Wait(att, err, c, nw, at) ==
    /\ pc' = "delay"
    /\ attempt' = att
    /\ lastError' = err
    /\ ctrl' = c
    /\ nWhen' = nw
    /\ snap' = SnapAt(at, nOnRetry)
    /\ body' = "none"
    /\ UNCHANGED <<calls, liveCalls, nOnRetry, sig, outcome, exit>>

Escapes_Uncaught(threw) == threw

\* try { callback(...) } catch { /* silently ignore */ }: whether the
\* exception of a throwing callback leaves the block.
Escapes(threw) == FALSE

DoRetry_ChecksAfterNotify(att, err, c, nw, at, cb) ==
    LET c3  == IF cfg.hasOnRetry THEN AbortIn(c, cb, "onRetry") ELSE c
        nr  == IF cfg.hasOnRetry THEN nOnRetry + 1 ELSE nOnRetry
        at3 == IF at = "none" /\ ~c.aborted /\ c3.aborted THEN "onRetry" ELSE at
        sg  == configureSignal(c3, ext)
    IN IF cfg.abortable /\ c3.aborted
       THEN /\ pc' = "done"
            /\ outcome' = ErrResult(ReasonAsError(c3.reason))
            /\ exit' = "abortAfterDelay"
            /\ attempt' = att
            /\ lastError' = err
            /\ ctrl' = c3
            /\ nWhen' = nw
            /\ nOnRetry' = nr
            /\ snap' = SnapAt(at3, IF at3 = "onRetry" THEN nr ELSE nOnRetry)
            /\ body' = "none"
            /\ UNCHANGED <<calls, liveCalls, sig>>
       ELSE /\ pc' = "flight"
            /\ attempt' = att
            /\ lastError' = err
            /\ ctrl' = c3
            /\ nWhen' = nw
            /\ nOnRetry' = nr
            /\ snap' = SnapAt(at3, IF at3 = "onRetry" THEN nr ELSE nOnRetry)
            /\ sig' = sg
            /\ calls' = calls + 1
            /\ liveCalls' = liveCalls + (IF sg.fired = "none" THEN 1 ELSE 0)
            /\ body' = "none"
            /\ UNCHANGED <<outcome, exit>>

DoRetry_Rewinds(att, err, c, nw, at, cb) ==
    /\ pc' = "flight"
    /\ attempt' = 0
    /\ lastError' = err
    /\ ctrl' = c
    /\ nWhen' = nWhen
    /\ snap' = SnapAt(at, nOnRetry)
    /\ sig' = configureSignal(c, ext)
    /\ body' = "none"
    /\ UNCHANGED <<calls, liveCalls, nOnRetry, outcome, exit>>

\* try { onRetry?.(lastError, attempt) } catch {}  followed by doFetch():
\* configureSignal() and the call of fetch(parsedUrl, rest).
DoRetry(att, err, c, nw, at, cb) ==
    LET c3  == IF cfg.hasOnRetry THEN AbortIn(c, cb, "onRetry") ELSE c
        nr  == IF cfg.hasOnRetry THEN nOnRetry + 1 ELSE nOnRetry
        at3 == IF at = "none" /\ ~c.aborted /\ c3.aborted THEN "onRetry" ELSE at
        sg  == configureSignal(c3, ext)
    IN IF Escapes(cfg.hasOnRetry /\ cb.retryThrow)
       THEN /\ pc' = "done"
            /\ outcome' = Rejected
            /\ exit' = "threw"
            /\ attempt' = att
            /\ lastError' = err
            /\ ctrl' = c3
            /\ nWhen' = nw
            /\ nOnRetry' = nr
            /\ snap' = SnapAt(at3, IF at3 = "onRetry" THEN nr ELSE nOnRetry)
            /\ body' = "none"
            /\ UNCHANGED <<calls, liveCalls, sig>>
       ELSE /\ pc' = "flight"
            /\ attempt' = att
            /\ lastError' = err
            /\ ctrl' = c3
            /\ nWhen' = nw
            /\ nOnRetry' = nr
            /\ snap' = SnapAt(at3, IF at3 = "onRetry" THEN nr ELSE nOnRetry)
            /\ sig' = sg
            /\ calls' = calls + 1
            /\ liveCalls' = liveCalls + (IF sg.fired = "none" THEN 1 ELSE 0)
            /\ body' = "none"
            /\ UNCHANGED <<outcome, exit>>

\* The top of a retry iteration (attempt > 0): the abort check, the delay.
LoopTop(att, err, c1, nw, at1, cb) ==
    IF AbortedBeforeDelay(c1)
    THEN Settle(ErrResult(ReasonAsError(c1.reason)), "abortBeforeDelay", att, err, c1, nw, at1)
    ELSE LET fn  == cfg.delay = "fn"
             c2  == IF fn THEN AbortIn(c1, cb, "delayFn") ELSE c1
             at2 == IF at1 = "none" /\ ~c1.aborted /\ c2.aborted THEN "delayFn" ELSE at1
             d   == getRetryDelay(att, cb.delayAns)
         IN IF d = "throw"
            THEN Settle(Rejected, "threw", att, err, c2, nw, at2)
            ELSE IF d = "pos"
            THEN Wait(att, err, c2, nw, at2)
            ELSE DoRetry(att, err, c2, nw, at2, cb)

Fail_AsksFirst(err, cb) ==
    LET att == attempt + 1
        sr  == shouldRetry(err, att, cb.whenAns)
        ask == sr.asked
        c1  == IF ask THEN AbortIn(ctrl, cb, "when") ELSE ctrl
        at1 == IF ~ctrl.aborted /\ c1.aborted THEN "when" ELSE "none"
        nw  == IF ask THEN nWhen + 1 ELSE nWhen
    IN IF ~WithinBudget(att)
       THEN Settle(ErrResult(err), "exhausted", att, err, c1, nw, at1)
       ELSE IF sr.retry = "no"
       THEN Settle(ErrResult(err), "ineligible", att, err, c1, nw, at1)
       ELSE IF sr.retry = "throw"
       THEN Settle(Rejected, "threw", att, err, c1, nw, at1)
       ELSE LoopTop(att, err, c1, nw, at1, cb)

Fail_FirstError(err, cb) ==
    LET att   == attempt + 1
        first == IF lastError = NoError THEN err ELSE lastError
        sr    == shouldRetry(err, att, cb.whenAns)
        ask   == WithinBudget(att) /\ sr.asked
        c1    == IF ask THEN AbortIn(ctrl, cb, "when") ELSE ctrl
        at1   == IF ~ctrl.aborted /\ c1.aborted THEN "when" ELSE "none"
        nw    == IF ask THEN nWhen + 1 ELSE nWhen
    IN IF ~WithinBudget(att)
       THEN Settle(ErrResult(first), "exhausted", att, first, c1, nw, at1)
       ELSE IF sr.retry = "no"
       THEN Settle(ErrResult(first), "ineligible", att, first, c1, nw, at1)
       ELSE IF sr.retry = "throw"
       THEN Settle(Rejected, "threw", att, first, c1, nw, at1)
       ELSE LoopTop(att, first, c1, nw, at1, cb)

\* doFetch returned Err(err): lastError = err; attempt++; the loop condition.
Fail(err, cb) ==
    LET att == attempt + 1
        sr  == shouldRetry(err, att, cb.whenAns)
        ask == WithinBudget(att) /\ sr.asked
        c1  == IF ask THEN AbortIn(ctrl, cb, "when") ELSE ctrl
        at1 == IF ~ctrl.aborted /\ c1.aborted THEN "when" ELSE "none"
        nw  == IF ask THEN nWhen + 1 ELSE nWhen
    IN IF ~WithinBudget(att)
       THEN Settle(ErrResult(err), "exhausted", att, err, c1, nw, at1)
       ELSE IF sr.retry = "no"
       THEN Settle(ErrResult(err), "ineligible", att, err, c1, nw, at1)
       ELSE IF sr.retry = "throw"
       THEN Settle(Rejected, "threw", att, err, c1, nw, at1)
       ELSE LoopTop(att, err, c1, nw, at1, cb)

(***************************************************************************)
(* Actions.                                                                *)
(***************************************************************************)
\* What the history records of one resumption.
ObserveThrow(o, threw) ==
    IF "throw" \in o.on /\ threw THEN [o EXCEPT !.thrown = TRUE] ELSE o

ObserveResponse(o, res, at) ==
    IF "response" \in o.on THEN [o EXCEPT !.resp = [status |-> res.status, body |-> res.body, at |-> at]]
    ELSE o

ObserveAbort(o, rk) ==
    IF "abort" \in o.on /\ ctrl.aborted /\ o.again = "none"
    THEN [o EXCEPT !.again = IF pc = "done" THEN "settled" ELSE "pending",
                   !.differs = TaskAbortReason(rk) # ctrl.reason]
    ELSE o

ObserveValue(o, v) ==
    IF "value" \in o.on /\ v # "none" THEN [o EXCEPT !.val = v] ELSE o

DecodedValue_ParsesNothing(responseType, b) ==
    IF responseType = Str("json") THEN "json"
    ELSE IF responseType = Str("text") THEN "text"
    ELSE IF responseType = Str("stream") THEN (IF b = "none" THEN "null" ELSE "stream")
    ELSE IF responseType \in {Str("bytes"), Str("arraybuffer"), Str("blob")} THEN "binary"
    ELSE "response"

\* processResponse, switch (responseType): what Ok wraps for a response
\* whose body is b.  json answers Ok(null) when response.body == null,
\* stream hands over response.body, which is null then; the default is the
\* Response itself.
DecodedValue(responseType, b) ==
    IF responseType = Str("json") THEN (IF b = "none" THEN "null" ELSE "json")
    ELSE IF responseType = Str("text") THEN "text"
    ELSE IF responseType = Str("stream") THEN (IF b = "none" THEN "null" ELSE "stream")
    ELSE IF responseType \in {Str("bytes"), Str("arraybuffer"), Str("blob")} THEN "binary"
    ELSE "response"

\* totalByteLength = Number.parseInt(contentLength, 10), for the reader of
\* attempt i.
ObserveLength(o, i, sh) ==
    IF "bytes" \in o.on /\ hooks.onProgress /\ sh.known
    THEN [o EXCEPT !.bytes[i].total = sh.length]
    ELSE o

Completed_LastChunk(done, size) == size

\* completedByteLength += chunk.byteLength
Completed(done, size) == done + size

\* One chunk of size bytes read by the reader of attempt i; reported says
\* whether onProgress(Ok(..)) is called for it.
ObserveChunk(o, i, size, reported) ==
    IF "bytes" \in o.on
    THEN [o EXCEPT !.bytes[i].seen = @ + size,
                   !.bytes[i].n = @ + 1,
                   !.bytes[i].done = IF reported THEN Completed(@, size) ELSE @]
    ELSE IF "order" \in o.on
    THEN [o EXCEPT !.bytes[i].n = @ + 1]
    ELSE o

\* fetchT(url, init) up to the end of its checks: validateUrl and
\* validateOptions throw synchronously, or the options are taken apart.
\* The state it leaves with pc = "init" is the one fetchWithRetry starts in.
Validate ==
    /\ pc = "call"
    /\ LET v == validateOptions(raw)
       IN IF validateUrl(raw.url, raw.hasLocation) # "ok" \/ v.error # "none"
          THEN /\ pc' = "thrown"
               /\ UNCHANGED <<cfg, hooks>>
          ELSE /\ pc' = "init"
               /\ cfg' = MakeConfig(raw, v)
               /\ hooks' = MakeHooks(raw)
    /\ UNCHANGED <<attempt, lastError, calls, liveCalls, ctrl, ext, sig, body,
                   outcome, exit, nOnRetry, nWhen, snap, result, raw, peer, rd, obs>>

\* fetchWithRetry() up to the first fetch(): doFetch calls
\* configureSignal(), outside its try block, and then the transport.
FetchT ==
    /\ pc = "init"
    /\ IF cfg.hasTimeout /\ AbortSignalTimeoutThrows(raw.timeout)
       THEN /\ Settle(Rejected, "threw", attempt, lastError, ctrl, nWhen, "none")
       ELSE /\ LET sg == configureSignal(ctrl, ext)
               IN /\ sig' = sg
                  /\ liveCalls' = liveCalls + (IF sg.fired = "none" THEN 1 ELSE 0)
            /\ calls' = calls + 1
            /\ pc' = "flight"
            /\ UNCHANGED <<attempt, lastError, ctrl, body, outcome, exit,
                           nOnRetry, nWhen, snap>>
    /\ UNCHANGED <<cfg, ext, result, raw, peer, hooks, rd, obs>>

\* Whether cb says nothing about a callback that the loop iteration after
\* the failure err does not reach (the `when` predicate is not asked, the
\* delay function or onRetry is not called): what such a callback would do
\* makes no difference, and one record stands for all of them.
Reaches(err, cb) ==
    LET att      == attempt + 1
        sr       == shouldRetry(err, att, cb.whenAns)
        ask      == WithinBudget(att) /\ sr.asked
        c1       == IF ask THEN AbortIn(ctrl, cb, "when") ELSE ctrl
        top      == WithinBudget(att) /\ sr.retry = "yes" /\ ~AbortedBeforeDelay(c1)
        viaDelay == top /\ cfg.delay = "fn"
        viaRetry == top /\ cfg.hasOnRetry /\ getRetryDelay(att, cb.delayAns) = "zero"
    IN /\ ~ask => (cb.whenAns = "true" /\ cb.abortIn # "when")
       /\ ~viaDelay => (cb.delayAns = "zero" /\ cb.abortIn # "delayFn")
       /\ ~viaRetry => (~cb.retryThrow /\ cb.abortIn # "onRetry")

Failing_Unawaited(err, o) ==
    \E cb \in Callbacks(cfg, "fail", WithinBudget(attempt + 1)) :
        /\ Reaches(err, cb)
        /\ Fail(err, cb)
        /\ result' = result
        /\ obs' = ObserveThrow(o, cb.retryThrow /\ nOnRetry' # nOnRetry)

\* doFetch has returned Err(err): the rest of the loop iteration, with the
\* callbacks it reaches.
Failing(err, o) ==
    \E cb \in Callbacks(cfg, "fail", WithinBudget(attempt + 1)) :
        /\ Reaches(err, cb)
        /\ Fail(err, cb)
        /\ result' = ErrResult(err)
        /\ obs' = ObserveThrow(o, cb.retryThrow /\ nOnRetry' # nOnRetry)

NonOkFailure_AwaitedCancel(res) ==
    IF res.body = "locked" THEN NetworkError ELSE FetchError(res.status)

\* if (!response.ok): response.body?.cancel().catch(() => {}) and
\* Err(new FetchError(response.statusText, response.status)).  The body
\* "locked" is one whose cancel() rejects.
NonOkFailure(res) == FetchError(res.status)

\* The forms a body takes for setupProgressCallbacks: whether the response
\* has a content-length and its value (told apart only where the byte
\* counts are recorded), the number of chunks the body arrives in, and
\* whether onProgress throws when it is told that the length is missing.
Shapes(res) ==
    IF res.body # "none" /\ (hooks.onProgress \/ hooks.onChunk)
    THEN {sh \in [known  : BOOLEAN,
                  length : IF "bytes" \in obs.on THEN Lengths ELSE {0},
                  chunks : 0..MaxChunks,
                  throws : IF hooks.onProgress THEN BOOLEAN ELSE {FALSE}] :
              ~(hooks.onProgress /\ sh.known) => sh.length = 0}
    ELSE {[known |-> FALSE, length |-> 0, chunks |-> 0, throws |-> FALSE]}

\* setupProgressCallbacks up to its first read: onProgress(Err(..)) when
\* there is no content-length, then the clone of the body is opened.
SetupReader(res, sh) ==
    IF res.body # "none" /\ (hooks.onProgress \/ hooks.onChunk)
    THEN LET notice == hooks.onProgress /\ ~sh.known
         IN IF Escapes(notice /\ sh.throws)
            THEN [NoReader EXCEPT !.st = "failed", !.noLength = 1]
            ELSE [st |-> "open", left |-> sh.chunks,
                  known |-> hooks.onProgress /\ sh.known,
                  chunks |-> 0, progress |-> 0,
                  noLength |-> IF notice THEN 1 ELSE 0]
    ELSE NoReader

\* The transport resolves with a response: doFetch classifies it and
\* processResponse starts the notifications and decodes it (awaiting the
\* body for json and text).
TransportResolve(res) ==
    /\ pc = "flight"
    /\ sig.fired = "none"
    /\ IF ~IsOk(res.status)
       THEN /\ Failing(NonOkFailure(res), ObserveResponse(obs, res, calls))
            /\ rd' = rd
       ELSE /\ \E sh \in Shapes(res) :
                  /\ rd' = [rd EXCEPT ![calls] = SetupReader(res, sh)]
                  /\ obs' = ObserveValue(
                                ObserveThrow(
                                    ObserveLength(ObserveResponse(obs, res, calls), calls, sh),
                                    hooks.onProgress /\ ~sh.known /\ sh.throws),
                                IF cfg.responseType = "raw" \/ res.body = "none"
                                THEN DecodedValue(raw.responseType, res.body)
                                ELSE "none")
            /\ IF cfg.responseType = "raw" \/ res.body = "none"
               THEN /\ Settle(OkResult, "ok", attempt, lastError, ctrl, nWhen, "none")
                    /\ result' = OkResult
               ELSE /\ pc' = "body"
                    /\ body' = res.body
                    /\ UNCHANGED <<attempt, lastError, calls, liveCalls, ctrl, sig,
                                   outcome, exit, nOnRetry, nWhen, snap, result>>
    /\ UNCHANGED <<cfg, ext, raw, peer, hooks>>

\* The transport rejects with a network failure.
TransportReject ==
    /\ pc = "flight"
    /\ sig.fired = "none"
    /\ Failing(NetworkError, ObserveResponse(obs, NoResponse, 0))
    /\ UNCHANGED <<cfg, ext, raw, peer, hooks, rd>>

\* The signal handed to the transport has fired: fetch() rejects with the
\* signal's reason.
SignalReject ==
    /\ pc = "flight"
    /\ sig.fired # "none"
    /\ Failing(CaughtError(FiredReason(sig, ctrl, ext)), ObserveResponse(obs, NoResponse, 0))
    /\ UNCHANGED <<cfg, ext, raw, peer, hooks, rd>>

\* The awaited body decode settles: response.json() inside its own
\* try/catch, response.text() (and the other decoders) under doFetch's.
\* A stream that fails (the connection drops, the signal fires) fails for
\* the clone as well: both are branches of one tee, and the chunks the
\* clone has not read yet are dropped.
BodyDone(streamError) ==
    /\ pc = "body"
    /\ rd' = IF (streamError \/ sig.fired # "none") /\ rd[calls].st = "open"
             THEN [rd EXCEPT ![calls].st = "failed"]
             ELSE rd
    /\ LET failed == IF cfg.responseType = "json"
                     THEN sig.fired # "none" \/ streamError \/ body = "invalid"
                     ELSE sig.fired # "none" \/ streamError
           err    == IF cfg.responseType = "json" THEN InvalidJsonError
                     ELSE IF sig.fired # "none" THEN CaughtError(FiredReason(sig, ctrl, ext))
                     ELSE NetworkError
       IN IF failed
          THEN Failing(err, obs)
          ELSE /\ Settle(OkResult, "ok", attempt, lastError, ctrl, nWhen, "none")
               /\ result' = OkResult
               /\ obs' = ObserveValue(obs, DecodedValue(raw.responseType, body))
    /\ UNCHANGED <<cfg, ext, raw, peer, hooks>>

\* The delay timer fires: the abort check after the delay, then the retry.
DelayFire ==
    /\ pc = "delay"
    /\ IF AbortedAfterDelay(ctrl)
       THEN /\ Settle(ErrResult(ReasonAsError(ctrl.reason)), "abortAfterDelay",
                      attempt, lastError, ctrl, nWhen, "none")
            /\ obs' = obs
       ELSE \E cb \in Callbacks(cfg, "retry", TRUE) :
                /\ DoRetry(attempt, lastError, ctrl, nWhen, "none", cb)
                /\ obs' = ObserveThrow(obs, cfg.hasOnRetry /\ cb.retryThrow)
    /\ UNCHANGED <<cfg, ext, result, raw, peer, hooks, rd>>

AbortUser_InterruptsDelay(rk) ==
    /\ cfg.abortable
    /\ pc \in {"flight", "body", "delay", "done"}
    /\ ctrl' = ControllerAbort(ctrl, TaskAbortReason(rk))
    /\ sig' = IF pc \in {"flight", "body"} THEN Fire(sig, "user") ELSE sig
    /\ snap' = IF ctrl.aborted THEN snap
               ELSE [at      |-> IF pc \in {"flight", "body"} /\ sig.fired # "none"
                                 THEN "fired" ELSE pc,
                     calls   |-> calls,
                     live    |-> liveCalls,
                     onRetry |-> nOnRetry]
    /\ obs' = ObserveAbort(obs, rk)
    /\ pc' = IF pc = "delay" THEN "done" ELSE pc
    /\ outcome' = IF pc = "delay" THEN ErrResult(ReasonAsError(ctrl'.reason)) ELSE outcome
    /\ exit' = IF pc = "delay" THEN "abortAfterDelay" ELSE exit
    /\ UNCHANGED <<cfg, attempt, lastError, calls, liveCalls, ext, body,
                   nOnRetry, nWhen, result, raw, peer, hooks, rd>>

AbortUser_Resettles(rk) ==
    /\ cfg.abortable
    /\ pc \in {"flight", "body", "delay", "done"}
    /\ ctrl' = ControllerAbort(ctrl, TaskAbortReason(rk))
    /\ sig' = IF pc \in {"flight", "body"} THEN Fire(sig, "user") ELSE sig
    /\ snap' = IF ctrl.aborted THEN snap
               ELSE [at      |-> IF pc \in {"flight", "body"} /\ sig.fired # "none"
                                 THEN "fired" ELSE pc,
                     calls   |-> calls,
                     live    |-> liveCalls,
                     onRetry |-> nOnRetry]
    /\ obs' = ObserveAbort(obs, rk)
    /\ outcome' = IF pc = "done" THEN ErrResult(ReasonAsError(TaskAbortReason(rk)))
                  ELSE outcome
    /\ UNCHANGED <<cfg, pc, attempt, lastError, calls, liveCalls, ext, body,
                   exit, nOnRetry, nWhen, result, raw, peer, hooks, rd>>

\* task.abort(reason), called by the holder of the task while the
\* orchestrator is suspended (or after it has settled).
AbortUser(rk) ==
    /\ cfg.abortable
    /\ pc \in {"flight", "body", "delay", "done"}
    /\ ctrl' = ControllerAbort(ctrl, TaskAbortReason(rk))
    /\ sig' = IF pc \in {"flight", "body"} THEN Fire(sig, "user") ELSE sig
    /\ snap' = IF ctrl.aborted THEN snap
               ELSE [at      |-> IF pc \in {"flight", "body"} /\ sig.fired # "none"
                                 THEN "fired" ELSE pc,
                     calls   |-> calls,
                     live    |-> liveCalls,
                     onRetry |-> nOnRetry]
    /\ obs' = ObserveAbort(obs, rk)
    /\ UNCHANGED <<cfg, pc, attempt, lastError, calls, liveCalls, ext, body,
                   outcome, exit, nOnRetry, nWhen, result, raw, peer, hooks, rd>>

\* The caller aborts the controller behind init.signal (possibly before
\* fetchT is called).  Once the call has settled nothing of it reads the
\* signal any more.
AbortExternal(rk) ==
    /\ cfg.hasUserSignal
    /\ pc # "done"
    /\ ~ext.aborted
    /\ ext' = ControllerAbort(ext, ExternalAbortReason(rk))
    /\ sig' = IF pc \in {"flight", "body"} THEN Fire(sig, "ext") ELSE sig
    /\ UNCHANGED <<cfg, pc, attempt, lastError, calls, liveCalls, ctrl, body,
                   outcome, exit, nOnRetry, nWhen, snap, result, raw, peer, hooks, rd, obs>>

\* The per-attempt timeout signal fires.
TimeoutFire ==
    /\ pc \in {"flight", "body"}
    /\ "timeout" \in sig.src
    /\ sig.fired = "none"
    /\ sig' = Fire(sig, "timeout")
    /\ UNCHANGED <<cfg, pc, attempt, lastError, calls, liveCalls, ctrl, ext,
                   body, outcome, exit, nOnRetry, nWhen, snap, result, raw, peer, hooks,
                   rd, obs>>

\* What the callbacks of one chunk do: whether onChunk and onProgress throw.
ChunkThrows ==
    [chunk    : IF hooks.onChunk THEN BOOLEAN ELSE {FALSE},
     progress : IF hooks.onProgress THEN BOOLEAN ELSE {FALSE}]

DeliverChunk_AlwaysProgress(r, t) ==
    LET toChunk    == hooks.onChunk
        toProgress == hooks.onProgress
    IN IF Escapes(toChunk /\ t.chunk)
       THEN [r EXCEPT !.st = "failed", !.chunks = @ + 1]
       ELSE IF Escapes(toProgress /\ t.progress)
       THEN [r EXCEPT !.st = "failed",
                      !.chunks = IF toChunk THEN @ + 1 ELSE @,
                      !.progress = @ + 1]
       ELSE [r EXCEPT !.left = @ - 1,
                      !.chunks = IF toChunk THEN @ + 1 ELSE @,
                      !.progress = IF toProgress THEN @ + 1 ELSE @]

\* One turn of `for await (const chunk of body)` for the reader of attempt
\* i: onChunk(chunk), then onProgress(Ok(..)) when the total is known.
DeliverChunk(r, t) ==
    LET toChunk    == hooks.onChunk
        toProgress == hooks.onProgress /\ r.known
    IN IF Escapes(toChunk /\ t.chunk)
       THEN [r EXCEPT !.st = "failed", !.chunks = @ + 1]
       ELSE IF Escapes(toProgress /\ t.progress)
       THEN [r EXCEPT !.st = "failed",
                      !.chunks = IF toChunk THEN @ + 1 ELSE @,
                      !.progress = @ + 1]
       ELSE [r EXCEPT !.left = @ - 1,
                      !.chunks = IF toChunk THEN @ + 1 ELSE @,
                      !.progress = IF toProgress THEN @ + 1 ELSE @]

Notified_ProgressFirst(r, t) ==
    LET toChunk    == hooks.onChunk
        toProgress == hooks.onProgress /\ r.known
    IN (IF toProgress THEN <<"onProgress">> ELSE <<>>)
           \o (IF toChunk THEN <<"onChunk">> ELSE <<>>)

\* The callbacks one turn of the loop calls, in the order of the
\* statements of its body: if (onChunk) onChunk(chunk), then
\* if (onProgress && totalByteLength != null) onProgress(Ok(..)), which
\* is reached unless the exception of onChunk leaves its try block.
Notified(r, t) ==
    LET toChunk    == hooks.onChunk
        toProgress == hooks.onProgress /\ r.known
    IN (IF toChunk THEN <<"onChunk">> ELSE <<>>)
           \o (IF toProgress /\ ~Escapes(toChunk /\ t.chunk) THEN <<"onProgress">> ELSE <<>>)

\* The calls made for the chunk the reader of attempt i has just read, the
\* next one its stream yields.
ObserveOrder(o, i, r, t) ==
    IF "order" \in o.on
    THEN LET k    == o.bytes[i].n + 1
             made == Notified(r, t)
         IN [o EXCEPT !.log[i] = @ \o [j \in 1..Len(made) |-> [cb |-> made[j], chunk |-> k]]]
    ELSE o

ReadChunk(i, t, size) ==
    /\ rd[i].st = "open"
    /\ rd[i].left > 0
    /\ rd' = [rd EXCEPT ![i] = DeliverChunk(rd[i], t)]
    /\ obs' = ObserveChunk(
                  ObserveOrder(
                      ObserveThrow(obs, (hooks.onChunk /\ t.chunk)
                                            \/ (hooks.onProgress /\ rd[i].known /\ t.progress)),
                      i, rd[i], t),
                  i, size, rd'[i].progress # rd[i].progress)
    /\ UNCHANGED <<cfg, pc, attempt, lastError, calls, liveCalls, ctrl, ext, sig,
                   body, outcome, exit, nOnRetry, nWhen, snap, result, raw, peer, hooks>>

\* The cloned body has been read to its end: the loop is left.
ReadEnd(i) ==
    /\ rd[i].st = "open"
    /\ rd[i].left = 0
    /\ rd' = [rd EXCEPT ![i].st = "ended"]
    /\ UNCHANGED <<cfg, pc, attempt, lastError, calls, liveCalls, ctrl, ext, sig,
                   body, outcome, exit, nOnRetry, nWhen, snap, result, raw, peer, hooks,
                   obs>>

\* Reading the cloned body fails (the connection drops, the attempt is
\* cancelled): the outer catch of setupProgressCallbacks ends the loop.
ReadError(i) ==
    /\ rd[i].st = "open"
    /\ rd' = [rd EXCEPT ![i].st = "failed"]
    /\ UNCHANGED <<cfg, pc, attempt, lastError, calls, liveCalls, ctrl, ext, sig,
                   body, outcome, exit, nOnRetry, nWhen, snap, result, raw, peer, hooks,
                   obs>>

Next ==
    \/ FetchT
    \/ \E res \in Responses : TransportResolve(res)
    \/ TransportReject
    \/ SignalReject
    \/ \E se \in BOOLEAN : BodyDone(se)
    \/ DelayFire
    \/ \E rk \in ReasonKinds : AbortUser(rk)
    \/ \E rk \in ReasonKinds : AbortExternal(rk)
    \/ TimeoutFire

Spec == Init /\ [][Next]_vars

(***************************************************************************)
(* The whole call, from the raw arguments: validation, then the engine     *)
(* and the notifications.                                                  *)
(***************************************************************************)
\* The arguments explored: each family varies a few options of a call that
\* passes no others; the fields retries, delay, when and onRetry are those
\* of the retry object.
RawInits ==
    {[NoOptions EXCEPT !.url = u, !.hasLocation = l] : u \in Urls, l \in BOOLEAN}
    \cup {[NoOptions EXCEPT !.responseType = x] :
              x \in {Null, Str("json"), Str("text"), Str("xml"), Num("1")}}
    \cup {[NoOptions EXCEPT !.timeout = x, !.abortable = a, !.signal = a] :
              x \in {Null, Str("1")} \cup {Num(n) : n \in NumberLiterals},
              a \in {Undefined, True}}
    \cup {[NoOptions EXCEPT !.retry = x] :
              x \in {Null, Str("1"), True, Func} \cup {Num(n) : n \in NumberLiterals}}
    \cup {[NoOptions EXCEPT !.retry = Obj, !.retries = x, !.delay = d,
                            !.when = w, !.onRetry = o] :
              x \in {Undefined, Str("1")} \cup {Num(n) : n \in NumberLiterals},
              d \in {Undefined, Func, Str("1"), Num("-1"), Num("0"), Num("1")},
              w \in {Undefined, Arr, Func, Str("always")},
              o \in {Undefined, Func, Str("callback")}}
    \cup {[NoOptions EXCEPT !.responseType = Str("json"), !.onProgress = p,
                            !.onChunk = c] :
              p \in {Undefined, Func, Str("x")}, c \in {Undefined, Func, Num("1")}}
    \cup {[NoOptions EXCEPT !.responseType = x, !.onProgress = p, !.onChunk = c] :
              x \in {Undefined, Str("stream"), Str("text")},
              p \in {Undefined, Func}, c \in {Undefined, Func}}

InitV ==
    /\ raw \in RawInits
    /\ pc = "call"
    /\ cfg = NoConfig
    /\ hooks = NoHooks
    /\ obs = Recording({"response", "value"})
    /\ Fresh

\* The sizes of the chunks, told apart only where the byte counts are
\* recorded.
SizesRead == IF "bytes" \in obs.on THEN ChunkSizes ELSE {1}

Readers ==
    \/ \E i \in CallIds : \E t \in ChunkThrows : \E size \in SizesRead :
           ReadChunk(i, t, size)
    \/ \E i \in CallIds : ReadEnd(i)
    \/ \E i \in CallIds : ReadError(i)

NextV ==
    \/ Validate
    \/ Next
    \/ Readers

SpecV == InitV /\ [][NextV]_vars

(***************************************************************************)
(* The task handle: abortable calls, with the history of abort() kept.     *)
(***************************************************************************)
TaskAborted_OrTimedOut ==
    ctrl.aborted \/ sig.fired = "timeout"

\* get aborted() { return userController.signal.aborted }
TaskAborted == ctrl.aborted

InitA ==
    /\ cfg \in {c \in Configs : /\ c.abortable
                                /\ c.retries <= 1
                                /\ c.when \in {"none", "fn"}
                                /\ c.delay \in {"zero", "pos"}
                                /\ c.responseType \in {"json", "raw"}}
    /\ pc = "init"
    /\ raw = NoOptions
    /\ hooks = NoHooks
    /\ obs = Recording({"abort"})
    /\ Fresh

SpecA == InitA /\ [][Next]_vars

(***************************************************************************)
(* The notifications: calls with onProgress and onChunk and without a      *)
(* cancellation source (no task handle, no init.signal, no timeout), where *)
(* the actions of the cancellation sources are never enabled.              *)
(***************************************************************************)
InitN ==
    /\ cfg \in {c \in Configs : /\ ~c.abortable
                                /\ ~c.hasUserSignal
                                /\ ~c.hasTimeout
                                /\ c.retries <= 1
                                /\ c.when = "none"
                                /\ c.delay \in {"zero", "pos"}}
    /\ pc = "init"
    /\ raw = NoOptions
    /\ hooks \in [onProgress : BOOLEAN, onChunk : BOOLEAN]
    /\ obs = Recording({"throw", "response"})
    /\ Fresh

NextN ==
    \/ FetchT
    \/ \E res \in Responses : TransportResolve(res)
    \/ TransportReject
    \/ \E se \in BOOLEAN : BodyDone(se)
    \/ DelayFire
    \/ Readers

SpecN == InitN /\ [][NextN]_vars

(***************************************************************************)
(* The byte counts: the notifications with the sizes of the chunks and the *)
(* value of the content-length header told apart.                          *)
(***************************************************************************)
InitP ==
    /\ cfg \in {c \in Configs : /\ ~c.abortable
                                /\ ~c.hasUserSignal
                                /\ ~c.hasTimeout
                                /\ c.retries = 1
                                /\ c.when = "none"
                                /\ c.delay = "zero"
                                /\ ~c.hasOnRetry
                                /\ c.responseType = "json"}
    /\ pc = "init"
    /\ raw = NoOptions
    /\ hooks \in [onProgress : {TRUE}, onChunk : BOOLEAN]
    /\ obs = Recording({"bytes"})
    /\ Fresh

NextP ==
    \/ FetchT
    \/ \E res \in Responses : TransportResolve(res)
    \/ TransportReject
    \/ \E se \in BOOLEAN : BodyDone(se)
    \/ Readers

SpecP == InitP /\ [][NextP]_vars

(***************************************************************************)
(* The order of the notifications: calls with onProgress and onChunk in    *)
(* every combination, with the calls of each reader kept in a log.         *)
(***************************************************************************)
InitO ==
    /\ cfg \in {c \in Configs : /\ ~c.abortable
                                /\ ~c.hasUserSignal
                                /\ ~c.hasTimeout
                                /\ c.retries <= 1
                                /\ c.when = "none"
                                /\ c.delay = "zero"
                                /\ ~c.hasOnRetry
                                /\ c.responseType \in {"json", "raw"}}
    /\ pc = "init"
    /\ raw = NoOptions
    /\ hooks \in [onProgress : BOOLEAN, onChunk : BOOLEAN]
    /\ obs = Recording({"order"})
    /\ Fresh

SpecO == InitO /\ [][NextP]_vars

(***************************************************************************)
(* The timers: calls with a timeout, where the timeout signal of an        *)
(* attempt lives on after the attempt.  AbortSignal.timeout(ms) starts a   *)
(* timer that cannot be cleared, and configureSignal keeps no handle on    *)
(* the signal.                                                             *)
(***************************************************************************)
\* The timeout signal of the latest attempt fires after that attempt has
\* settled: during the delay before the next one, or after the call has
\* ended (with Ok(response) or Ok(stream) the caller may still be reading
\* the body, which the signal then ends with a TimeoutError).
TimeoutLate ==
    /\ pc \in {"delay", "done"}
    /\ "timeout" \in sig.src
    /\ sig.fired = "none"
    /\ sig' = Fire(sig, "timeout")
    /\ UNCHANGED <<cfg, pc, attempt, lastError, calls, liveCalls, ctrl, ext,
                   body, outcome, exit, nOnRetry, nWhen, snap, result, raw, peer, hooks,
                   rd, obs>>

InitT ==
    /\ cfg \in {c \in Configs : /\ c.hasTimeout
                                /\ c.retries <= 1
                                /\ c.when = "none"
                                /\ c.delay \in {"zero", "pos"}
                                /\ ~c.hasOnRetry
                                /\ c.responseType \in {"json", "raw"}}
    /\ pc = "init"
    /\ raw = NoOptions
    /\ hooks = NoHooks
    /\ obs = ObsOff
    /\ Fresh

NextT ==
    \/ Next
    \/ TimeoutLate

SpecT == InitT /\ [][NextT]_vars

(***************************************************************************)
(* Two calls at a time: while the call above runs, the program makes a     *)
(* second one, fetchT(url, { abortable: true }), and holds the tasks of    *)
(* both.  The second call has no retry and no timeout and asks for the     *)
(* Response itself, so its fetchWithRetry is one doFetch.                   *)
(***************************************************************************)
\* Everything of the first call.
thisCall ==
    <<cfg, pc, attempt, lastError, calls, liveCalls, ctrl, ext, sig, body,
      outcome, exit, nOnRetry, nWhen, snap, result, raw, hooks, rd, obs>>

Controller_Shared(call) == "this"

\* The controller that abort() of the task of `call` ("this", "peer")
\* aborts: userController is a local of fetchT, made by new
\* AbortController() in the invocation that returns the task, and the
\* closure of the task captures that one.
Controller(call) == call

\* The program calls fetchT a second time while the first call runs: the
\* controller is made, doFetch hands its signal to fetch().
PeerCall ==
    /\ pc \in {"flight", "body", "delay"}
    /\ peer.pc = "none"
    /\ peer' = [peer EXCEPT !.pc = "flight", !.calls = 1, !.fired = peer.ctrl.aborted]
    /\ UNCHANGED thisCall

\* The transport of the second call resolves: Ok(response), or the
\* FetchError of a status that is not ok; attempt++ and, with no retries,
\* the loop ends.
PeerResolve(res) ==
    /\ peer.pc = "flight"
    /\ ~peer.fired
    /\ peer' = IF IsOk(res.status)
               THEN [peer EXCEPT !.pc = "done", !.outcome = OkResult]
               ELSE [peer EXCEPT !.pc = "done", !.outcome = ErrResult(NonOkFailure(res)),
                                 !.attempt = 1]
    /\ UNCHANGED thisCall

\* The transport of the second call rejects: with the reason of its signal
\* when that has fired, with a network failure otherwise.
PeerReject ==
    /\ peer.pc = "flight"
    /\ peer' = [peer EXCEPT !.pc = "done",
                            !.outcome = IF peer.fired
                                        THEN ErrResult(CaughtError(peer.ctrl.reason))
                                        ELSE ErrResult(NetworkError),
                            !.attempt = 1]
    /\ UNCHANGED thisCall

\* abort(reason) of the task of the second call.
PeerAbort(rk) ==
    /\ peer.pc \in {"flight", "done"}
    /\ IF Controller("peer") = "peer"
       THEN /\ peer' = [peer EXCEPT !.ctrl = ControllerAbort(@, TaskAbortReason(rk)),
                                    !.fired = @ \/ peer.pc = "flight",
                                    !.asked = TRUE]
            /\ UNCHANGED thisCall
       ELSE /\ peer' = [peer EXCEPT !.asked = TRUE]
            /\ ctrl' = ControllerAbort(ctrl, TaskAbortReason(rk))
            /\ sig' = IF pc \in {"flight", "body"} THEN Fire(sig, "user") ELSE sig
            /\ UNCHANGED <<cfg, pc, attempt, lastError, calls, liveCalls, ext, body,
                           outcome, exit, nOnRetry, nWhen, snap, result, raw, hooks,
                           rd, obs>>

InitC ==
    /\ cfg \in {c \in Configs : /\ c.abortable
                                /\ ~c.hasUserSignal
                                /\ ~c.hasTimeout
                                /\ c.retries <= 1
                                /\ c.when = "none"
                                /\ c.delay \in {"zero", "pos"}
                                /\ ~c.hasOnRetry
                                /\ c.responseType \in {"json", "raw"}}
    /\ pc = "init"
    /\ raw = NoOptions
    /\ hooks = NoHooks
    /\ obs = ObsOff
    /\ Fresh

NextC ==
    \/ FetchT
    \/ \E res \in Responses : TransportResolve(res)
    \/ TransportReject
    \/ SignalReject
    \/ \E se \in BOOLEAN : BodyDone(se)
    \/ DelayFire
    \/ \E rk \in ReasonKinds : AbortUser(rk)
    \/ PeerCall
    \/ \E res \in Responses : PeerResolve(res)
    \/ PeerReject
    \/ \E rk \in ReasonKinds : PeerAbort(rk)

SpecC == InitC /\ [][NextC]_vars

(***************************************************************************)
(* Progress: the engine under the scheduling of the event loop.  A         *)
(* resumption of the orchestrator that is due is run: fetchWithRetry is    *)
(* started, the promise of fetch() and the promise of the body decode      *)
(* settle, the timer of delay() fires.  Nothing is assumed of the caller   *)
(* or of the timeout (abort(), init.signal and the timeout may fire or     *)
(* not).                                                                   *)
(***************************************************************************)
\* The resumptions of the orchestrator.
Resume ==
    \/ FetchT
    \/ \E res \in Responses : TransportResolve(res)
    \/ TransportReject
    \/ SignalReject
    \/ \E se \in BOOLEAN : BodyDone(se)
    \/ DelayFire

\* Every retry count and every policy of eligibility and delay, with all
\* the cancellation sources or with none.
InitL ==
    /\ cfg \in {c \in Configs : /\ c.hasUserSignal = c.abortable
                                /\ c.hasTimeout = c.abortable
                                /\ c.responseType \in {"json", "raw"}}
    /\ pc = "init"
    /\ raw = NoOptions
    /\ hooks = NoHooks
    /\ obs = ObsOff
    /\ Fresh

SpecL == InitL /\ [][Next]_vars /\ WF_vars(Resume)

(***************************************************************************)
(* Properties.                                                             *)
(***************************************************************************)
\* A retry is under way: an attempt beyond the first is in flight, or the
\* orchestrator waits in the delay before it; lastError is the failure
\* being retried.
Retrying == pc \in {"flight", "body", "delay"} /\ attempt > 0

\* C1: whatever the transport and the user callbacks do (throwing
\* included), the promise returned by fetchT settles as a Result (Ok or
\* Err) and is never rejected.
C1_OutcomeIsAlwaysResult == outcome.kind # "rejected"

C3_AbortInFlightIsLast ==
    snap.at = "flight" =>
        /\ calls = snap.calls
        /\ (pc = "done" /\ ctrl.reason.name = ABORT_ERROR =>
                /\ outcome = ErrResult(ReasonAsError(ctrl.reason))
                /\ outcome.err.name = ABORT_ERROR)

C3_Witness ==
    /\ snap.at = "flight"
    /\ pc = "done"
    /\ cfg.retries = MaxRetries
    /\ calls = 1
    /\ outcome.kind = "err"
    /\ outcome.err.name = ABORT_ERROR

\* C4: a failure whose origin is a cancellation signal (task.abort or the
\* external init.signal, with any reason) is never retried: no retry is
\* under way for such a failure.
C4_CancellationNeverRetried ==
    Retrying => lastError.src \notin {"user", "ext"}

C6_AbortDuringDelay ==
    snap.at = "delay" =>
        /\ calls = snap.calls
        /\ pc \in {"delay", "done"}
        /\ (pc = "done" => outcome = ErrResult(ReasonAsError(ctrl.reason)))

C6_Witness ==
    /\ snap.at = "delay"
    /\ pc = "done"
    /\ attempt <= cfg.retries
    /\ outcome.kind = "err"
    /\ outcome.err.src = "user"

\* C7: with no `when` condition an HTTP-status failure is never retried:
\* the call ends with that FetchError and no further transport call (one
\* call in all when the first attempt is the one that fails so).
C7_HttpNotRetriedByDefault ==
    (cfg.when = "none" /\ lastError.fetchErr) =>
        /\ pc = "done"
        /\ outcome = ErrResult(lastError)
        /\ calls = attempt

C7_Witness ==
    /\ cfg.when = "none"
    /\ cfg.retries = MaxRetries
    /\ lastError.fetchErr
    /\ pc = "done"
    /\ calls = 1

\* C8: with `when` an array of status codes, a failed attempt is retried
\* (budget permitting) iff it is an HTTP-status failure whose status is in
\* the array; every other failure ends the call with that failure.
InWhenArray(e) == e.fetchErr /\ e.status \in WhenCodes

C8_ArrayEligibility ==
    cfg.when = "array" =>
        /\ (Retrying => InWhenArray(lastError))
        /\ (lastError # NoError /\ ~InWhenArray(lastError) =>
                pc = "done" /\ outcome = ErrResult(lastError))
        /\ (pc = "done" /\ InWhenArray(lastError) /\ attempt <= cfg.retries =>
                exit \in {"ok", "abortBeforeDelay", "abortAfterDelay", "threw"})

C8_Witness ==
    /\ cfg.when = "array"
    /\ pc = "done"
    /\ calls = 3
    /\ attempt = 2
    /\ InWhenArray(lastError)
    /\ outcome.kind = "ok"

C11_FreshTimeoutPerAttempt ==
    /\ (~ctrl.aborted /\ ~ext.aborted) => liveCalls = calls
    /\ exit = "ok" => calls = attempt + 1

\* The first attempt timed out, the `when` predicate accepted the Timeout
\* failure, the second attempt started live and succeeded.
C11_Witness ==
    /\ exit = "ok"
    /\ outcome = OkResult
    /\ cfg.hasTimeout
    /\ cfg.when = "fn"
    /\ lastError.name = TIMEOUT_ERROR
    /\ attempt = 1
    /\ nWhen = 1
    /\ calls = 2
    /\ liveCalls = 2

\* C12 as stated: the settled Result is the first success or the failure
\* of the most recent attempt, never a value that no attempt produced.
C12_OutcomeFromAttempt ==
    (pc = "done" /\ outcome.kind \in {"ok", "err"}) => outcome = result

\* C12, amended: a success ends the call at once and is the outcome; a
\* call that ends because the budget is used up or the failure is not
\* eligible settles with the failure of the most recent attempt; a call
\* that ends at one of the two abort checks settles with the reason of
\* the master token, which no attempt needs to have produced; a call in
\* which `when`, the delay function or configureSignal throws rejects.
C12_OutcomeProvenance ==
    /\ result.kind = "ok" => (pc = "done" /\ exit = "ok" /\ outcome = OkResult)
    /\ (pc = "done" /\ exit \in {"ok", "exhausted", "ineligible"}) => outcome = result
    /\ (pc = "done" /\ exit \in {"abortBeforeDelay", "abortAfterDelay"}) =>
           (outcome = ErrResult(ReasonAsError(ctrl.reason)) /\ result.kind = "err")
    /\ (pc = "done" /\ exit = "threw") => outcome = Rejected
    /\ pc = "done" => exit \in {"ok", "exhausted", "ineligible", "abortBeforeDelay",
                                "abortAfterDelay", "threw"}

\* The attempt failed in the network, abort() came during the delay, and
\* the abort check after the delay ended the call with the token's reason,
\* which is not the failure of the attempt.
C12_Witness ==
    /\ pc = "done"
    /\ exit = "abortAfterDelay"
    /\ result.kind = "err"
    /\ result.err.src = "network"
    /\ outcome.err.src = "user"
    /\ outcome # result

\* A callback record whose onRetry returns normally.
Quiet(cb) == [cb EXCEPT !.retryThrow = FALSE]

\* The resumption that starts with a failed attempt, with the callbacks cb.
FailStep(cb) ==
    /\ pc \in {"flight", "body"}
    /\ result'.kind = "err"
    /\ Fail(result'.err, cb)

\* The resumption after the delay, with the callbacks cb.
RetryStep(cb) ==
    /\ pc = "delay"
    /\ ~AbortedAfterDelay(ctrl)
    /\ DoRetry(attempt, lastError, ctrl, nWhen, "none", cb)

\* The delivery of one chunk by the reader of attempt i.
ChunkStep(i, t) ==
    /\ rd[i].st = "open"
    /\ rd[i].left > 0
    /\ rd' = [rd EXCEPT ![i] = DeliverChunk(rd[i], t)]

\* The start of the notifications for the response res.
SetupStep(res, sh) ==
    /\ pc = "flight"
    /\ IsOk(res.status)
    /\ rd' = [rd EXCEPT ![calls] = SetupReader(res, sh)]

\* C13: an exception thrown by onRetry, onChunk or onProgress changes
\* nothing.  Every step the call takes with a throwing callback is also the
\* step it takes when that callback returns normally: the same outcome,
\* the same attempts, and the reader goes on to the next chunk.
C13_CallbackThrowsChangeNothing ==
    [][/\ \A cb \in Callbacks(cfg, "fail", WithinBudget(attempt + 1)) :
              FailStep(cb) => FailStep(Quiet(cb))
       /\ \A cb \in Callbacks(cfg, "retry", TRUE) :
              RetryStep(cb) => RetryStep(Quiet(cb))
       /\ \A i \in CallIds : \A t \in ChunkThrows :
              ChunkStep(i, t) => ChunkStep(i, [chunk |-> FALSE, progress |-> FALSE])
       /\ \A res \in Responses : \A sh \in Shapes(res) :
              SetupStep(res, sh) => SetupStep(res, [sh EXCEPT !.throws = FALSE])
      ]_vars

\* A callback has thrown, the call went on to a second attempt that
\* succeeded, and the reader of that attempt has delivered every chunk.
C13_Witness ==
    /\ obs.thrown
    /\ exit = "ok"
    /\ outcome = OkResult
    /\ calls = 2
    /\ rd[2].st = "ended"
    /\ rd[2].chunks = MaxChunks

\* What C14 calls an invalid configuration value or address.
InvalidPerClaim(init) ==
    \/ init.url = "malformed"
    \/ init.url = "relative" /\ ~init.hasLocation
    \/ ~IsNullish(init.responseType) /\ init.responseType \notin ValidTypes
    \/ ~IsNullish(init.timeout)
           /\ ~(init.timeout.type = "number" /\ GreaterThanZero(init.timeout))
    \/ ~IsNullish(init.onProgress) /\ init.onProgress.type # "function"
    \/ ~IsNullish(init.onChunk) /\ init.onChunk.type # "function"
    \/ init.retry # Undefined /\ init.retry # Obj
           /\ ~(NumberIsInteger(init.retry) /\ ~LessThanZero(init.retry))
    \/ init.retry = Obj
           /\ \/ ~IsNullish(init.retries)
                     /\ ~(NumberIsInteger(init.retries) /\ ~LessThanZero(init.retries))
              \/ ~IsNullish(init.delay)
                     /\ ~(init.delay.type = "number" /\ ~LessThanZero(init.delay))
                     /\ init.delay.type # "function"
              \/ ~IsNullish(init.when) /\ init.when # Arr /\ init.when.type # "function"
              \/ ~IsNullish(init.onRetry) /\ init.onRetry.type # "function"

\* C14: for every invalid configuration value and for an invalid address
\* fetchT throws synchronously: the call gets no further than its checks,
\* no transport call is made, no signal or timer is created, and the
\* returned promise neither settles nor rejects.
C14_InvalidConfigThrows ==
    InvalidPerClaim(raw) =>
        /\ pc \in {"call", "thrown"}
        /\ calls = 0
        /\ sig = NoSignal
        /\ outcome = Pending

\* C15: a retry option that is neither a number nor an object is ignored:
\* fetchT does not throw, there is no retry, no delay and no onRetry, and
\* the call ends after exactly one attempt.
C15_OddRetryIgnored ==
    raw.retry.type \notin {"undefined", "number", "object"} =>
        /\ pc # "thrown"
        /\ pc # "delay"
        /\ calls <= 1
        /\ nOnRetry = 0
        /\ pc = "done" => (calls = 1 /\ attempt <= 1)

\* retry: '1' (a string): the only attempt failed in the network, which a
\* retry count of 1 would have retried, and the call ended with it.
C15_Witness ==
    /\ raw.retry = Str("1")
    /\ pc = "done"
    /\ calls = 1
    /\ exit = "exhausted"
    /\ outcome = ErrResult(NetworkError)

\* C16: task.abort is idempotent.  Once the master token has fired, a
\* later abort() leaves its reason alone; once the outcome has settled no
\* step changes it; and an outcome that carries a reason of task.abort
\* carries the reason the token holds, the one of the first call.
C16_AbortIdempotent ==
    [][/\ ctrl.aborted => ctrl' = ctrl
       /\ pc = "done" => (pc' = "done" /\ outcome' = outcome /\ exit' = exit)
       /\ (pc' = "done" /\ outcome'.kind = "err" /\ outcome'.err.src = "user") =>
              outcome'.err = ReasonAsError(ctrl'.reason)
      ]_vars

\* abort() was called twice before the outcome settled, the second time
\* with another reason, and the outcome carries the reason of the token.
C16_Witness ==
    /\ obs.again = "pending"
    /\ obs.differs
    /\ pc = "done"
    /\ outcome = ErrResult(ReasonAsError(ctrl.reason))
    /\ ctrl.reason.name = "CustomError"

\* C17 as stated: once the outcome has settled, no step (abort() included)
\* changes the outcome or the value read from `aborted`.
C17_HandleInert ==
    [][pc = "done" => (outcome' = outcome /\ TaskAborted' = TaskAborted)]_vars

\* C17, amended: once the outcome has settled, no step changes the outcome
\* or starts an attempt, a delay or a callback; `aborted` is not frozen:
\* it can still go from false to true (abort() after settlement), never
\* back.
C17_SettledOutcomeFrozen ==
    [][pc = "done" =>
           /\ pc' = "done"
           /\ outcome' = outcome
           /\ UNCHANGED <<exit, calls, liveCalls, attempt, nOnRetry, nWhen, result>>
           /\ TaskAborted => TaskAborted'
      ]_vars

\* The call succeeded and abort() was called for the first time after
\* that: the outcome is still Ok, `aborted` reads true.
C17_Witness ==
    /\ pc = "done"
    /\ outcome = OkResult
    /\ snap.at = "done"
    /\ TaskAborted

C19_AbortedAfterTimeout ==
    (cfg.abortable /\ cfg.hasTimeout /\ pc = "done" /\ outcome.kind = "err"
         /\ outcome.err.name = TIMEOUT_ERROR) => TaskAborted

\* C20: while the latest answer of the transport is a response with a
\* status outside 200..299, the result of its attempt is the FetchError
\* with that status (whether or not the body could be cancelled), the body
\* is not being decoded, and no reader was set up for that attempt, so
\* that neither onChunk nor onProgress is called for it.
C20_NonOkIsFetchError ==
    (obs.resp.status # 0 /\ ~IsOk(obs.resp.status)) =>
        /\ result = ErrResult(FetchError(obs.resp.status))
        /\ pc # "body"
        /\ body = "none"
        /\ rd[obs.resp.at] = NoReader

\* A 503 whose body could not be cancelled, in a call with onChunk and
\* onProgress: the call ended with FetchError 503.
C20_Witness ==
    /\ obs.resp.status = 503
    /\ obs.resp.body = "locked"
    /\ hooks.onChunk
    /\ hooks.onProgress
    /\ pc = "done"
    /\ outcome = ErrResult(FetchError(503))

\* What C21 says of the failure e that task.abort(reason) leads to, for a
\* reason of the kind rk: the Error itself with its own name, the wrapping
\* AbortError, the platform's default AbortError.
AbortDelivers(rk, e) ==
    /\ e.src = "user"
    /\ rk = "error" => (e.name = "CustomError" /\ e.tag = "given")
    /\ rk = "value" => (e.name = ABORT_ERROR /\ e.tag = "wrapped")
    /\ rk = "none" => (e.name = ABORT_ERROR /\ e.tag = "default")

C22_CancelAndTimeoutByName ==
    /\ (pc = "done" /\ exit \in {"abortBeforeDelay", "abortAfterDelay"}) =>
           outcome.err.name = ABORT_ERROR
    /\ (pc = "done" /\ exit \in {"exhausted", "ineligible"} /\ sig.fired = "user") =>
           outcome.err.name = ABORT_ERROR
    /\ (pc = "done" /\ exit \in {"exhausted", "ineligible"} /\ sig.fired = "timeout") =>
           outcome.err.name = TIMEOUT_ERROR

\* C23: while the latest answer of the transport is a 2xx response without
\* a body and responseType is json or stream, the call has ended with
\* Ok(null), not with a parse failure, and no reader was set up for that
\* attempt, so that neither onChunk nor onProgress (the notice of a missing
\* length included) is called for it.
C23_NoBodyIsOkNull ==
    (obs.resp.status # 0 /\ IsOk(obs.resp.status) /\ obs.resp.body = "none"
         /\ raw.responseType \in {Str("json"), Str("stream")}) =>
        /\ pc = "done"
        /\ exit = "ok"
        /\ outcome = OkResult
        /\ result = OkResult
        /\ obs.val = "null"
        /\ rd[obs.resp.at] = NoReader

\* A 204 for a call with responseType json, onChunk and onProgress.
C23_Witness ==
    /\ obs.resp.status = 204
    /\ obs.resp.body = "none"
    /\ raw.responseType = Str("json")
    /\ hooks.onChunk
    /\ hooks.onProgress
    /\ pc = "done"
    /\ outcome = OkResult
    /\ obs.val = "null"

\* What C24 says of the reader of attempt i at every step but for the last
\* report: onProgress(Ok(..)) is called once for each chunk the stream
\* delivers, completedByteLength never goes down and is the number of
\* bytes delivered so far.
ProgressCounts(i) ==
    rd'[i].known =>
        /\ rd'[i].progress = obs'.bytes[i].n
        /\ obs'.bytes[i].done >= obs.bytes[i].done
        /\ obs'.bytes[i].done = obs'.bytes[i].seen
        /\ (rd'[i].st = "ended" => rd'[i].left = 0)

\* C24 as stated: for a response with a length header onProgress(Ok(..)) is
\* called once per chunk, completedByteLength is non-decreasing and
\* cumulative, and when the body has been read to its end the last report
\* has completedByteLength equal to totalByteLength.
C24_ProgressEndsAtTotal ==
    [][\A i \in CallIds :
           /\ ProgressCounts(i)
           /\ (rd'[i].known /\ rd'[i].st = "ended" /\ rd'[i].progress > 0) =>
                  obs'.bytes[i].done = obs'.bytes[i].total
      ]_vars

\* C24, amended: for a response with a length header onProgress(Ok(..)) is
\* called once per chunk, completedByteLength is non-decreasing and
\* cumulative, and when the body has been read to its end the last report
\* has completedByteLength equal to the number of bytes of the body; that
\* is totalByteLength exactly when the header states the number of bytes
\* the stream delivers.
C24_ProgressCumulative ==
    [][\A i \in CallIds :
           /\ ProgressCounts(i)
           /\ (rd'[i].known /\ rd'[i].st = "ended" /\ rd'[i].progress > 0) =>
                  (obs'.bytes[i].done = obs'.bytes[i].total
                       <=> obs'.bytes[i].total = obs'.bytes[i].seen)
      ]_vars

\* A body of MaxChunks chunks of two bytes with the right length header,
\* read to its end: MaxChunks reports, the last one at the total.
C24_Witness ==
    /\ rd[1].known
    /\ rd[1].st = "ended"
    /\ rd[1].progress = MaxChunks
    /\ obs.bytes[1].n = MaxChunks
    /\ obs.bytes[1].done = 2 * MaxChunks
    /\ obs.bytes[1].total = 2 * MaxChunks
    /\ exit = "ok"

\* C25: for the reader of a 2xx response with a body and no length header,
\* in a call with onProgress: onProgress was called once with the failure
\* and never with byte counts, and onChunk, when the call has one, was
\* called once for each chunk the stream has delivered.
C25_NoLengthOneNotice ==
    \A i \in CallIds :
        (rd[i].st # "none" /\ hooks.onProgress /\ ~rd[i].known) =>
            /\ rd[i].noLength = 1
            /\ rd[i].progress = 0
            /\ obs.bytes[i].done = 0
            /\ rd[i].chunks = (IF hooks.onChunk THEN obs.bytes[i].n ELSE 0)

\* A body of MaxChunks chunks without a length header, read to its end, in
\* a call with onProgress and onChunk.
C25_Witness ==
    /\ hooks.onProgress
    /\ hooks.onChunk
    /\ rd[1].st = "ended"
    /\ ~rd[1].known
    /\ rd[1].noLength = 1
    /\ rd[1].chunks = MaxChunks
    /\ obs.bytes[1].n = MaxChunks
    /\ obs.bytes[1].seen > 0

\* C26: onRetry is invoked before the inter-retry delay.  In a call with
\* onRetry, while the orchestrator waits in the delay before retry k,
\* onRetry has been invoked for retry k already (k times in all), and it
\* has been when the transport call of retry k is in flight.
C26_OnRetryBeforeDelay ==
    (cfg.hasOnRetry /\ pc \in {"delay", "flight", "body"}) => nOnRetry = attempt

\* C27: the `when` predicate, the delay function and onRetry are called
\* with the variables attempt and lastError as they are when the
\* resumption that calls them ends (shouldRetry(lastError, attempt),
\* getRetryDelay(attempt), onRetry(lastError, attempt)).  In every step
\* that counts a failure, attempt goes up by exactly 1 and lastError is the
\* failure of the attempt that just failed; in every step that calls
\* `when`, calls onRetry or goes on to a retry, attempt is the number k of
\* the retry, between 1 and the retry count, one less than the number of
\* the transport call the retry makes, and `when` and onRetry have then
\* been called k times; a static delay above zero always pauses before the
\* retry and a delay of zero never does.
C27_RetryArguments ==
    [][/\ attempt' \in {attempt, attempt + 1}
       /\ attempt' = attempt + 1 =>
              (pc \in {"flight", "body"} /\ result'.kind = "err" /\ lastError' = result'.err)
       /\ nWhen' \in {nWhen, nWhen + 1}
       /\ nOnRetry' \in {nOnRetry, nOnRetry + 1}
       /\ (nWhen' # nWhen \/ nOnRetry' # nOnRetry \/ (pc' = "delay" /\ pc # "delay")
               \/ (calls' # calls /\ calls > 0)) =>
              /\ attempt' = calls
              /\ attempt' >= 1
              /\ attempt' <= cfg.retries
              /\ lastError' = result'.err
       /\ nWhen' # nWhen => (attempt' = attempt + 1 /\ nWhen' = attempt')
       /\ nOnRetry' # nOnRetry => nOnRetry' = attempt'
       /\ pc' = "delay" => (pc \in {"flight", "body", "delay"} /\ cfg.delay \in {"pos", "fn"})
       /\ (calls' # calls /\ calls > 0 /\ cfg.delay = "pos") => pc = "delay"
       /\ (calls' # calls /\ calls > 0 /\ cfg.delay = "zero") => pc \in {"flight", "body"}
      ]_vars

\* The second retry of a call with a `when` predicate, a static delay and
\* onRetry is in flight: both callbacks have been called twice.
C27_Witness ==
    /\ cfg.when = "fn"
    /\ cfg.delay = "pos"
    /\ cfg.hasOnRetry
    /\ pc = "flight"
    /\ attempt = 2
    /\ calls = 3
    /\ nWhen = 2
    /\ nOnRetry = 2

\* The transport calls of the call whose outcome is not known yet: those
\* started, less those that have failed and the one that succeeded.
InFlight == calls - attempt - (IF result.kind = "ok" THEN 1 ELSE 0)

\* C28: at most one transport call of a call is in flight, exactly one
\* while the orchestrator is suspended in doFetch and none otherwise; and a
\* step that starts a further attempt is a step in which the attempt
\* before it is known to have failed (it is never started after a success,
\* nor while an attempt is still in flight).
C28_AttemptsSequential ==
    /\ [](InFlight = (IF pc \in {"flight", "body"} THEN 1 ELSE 0))
    /\ [][(calls' # calls) =>
              /\ calls' = calls + 1
              /\ InFlight' = 1
              /\ calls > 0 => (result'.kind = "err" /\ attempt' = calls)
              /\ pc \in {"init", "flight", "body", "delay"}
         ]_vars

\* The last attempt the budget allows is in flight, all attempts before it
\* have failed.
C28_Witness ==
    /\ pc = "flight"
    /\ cfg.retries = MaxRetries
    /\ calls = MaxRetries + 1
    /\ attempt = MaxRetries
    /\ result.kind = "err"
    /\ InFlight = 1

\* C29: the notifications of a reader come in stream order (each chunk is
\* the next one of its stream), and a notification of the reader of
\* attempt i (the notice of a missing length, onChunk, onProgress) is
\* delivered only while attempt i is the latest attempt started.
C29_NoLateNotifications ==
    [][\A i \in CallIds :
           (rd'[i].noLength # rd[i].noLength \/ rd'[i].chunks # rd[i].chunks
                \/ rd'[i].progress # rd[i].progress) =>
               /\ calls' = i
               /\ rd[i].st = "open" => rd'[i].left \in {rd[i].left, rd[i].left - 1}
      ]_vars

\* C30: the timeout timer of an attempt is released when the attempt
\* settles.  Once the outcome of the latest attempt is known (the
\* orchestrator waits in the delay, or the call has ended, with
\* Ok(response) included), its timeout signal does not fire any more.
C30_TimerReleased ==
    [][(pc \in {"delay", "done"}) => ~(sig.fired = "none" /\ sig'.fired = "timeout")]_vars

\* C31: the signal handed to the transport is built, for every attempt,
\* from all the sources that are present (init.signal, the master token's
\* signal iff abortable, a timeout signal iff a timeout is set): none of
\* them gives no signal, one gives that signal, several give the any-of
\* composite.  So once init.signal has fired, the attempt in flight is
\* cancelled also with abortable and a timeout set, in the first attempt
\* and in every retry, and no attempt ends in success.
C31_SignalFromAllSources ==
    /\ calls >= 1 =>
           /\ sig.src \subseteq {"ext", "user", "timeout"}
           /\ "ext" \in sig.src <=> cfg.hasUserSignal
           /\ "user" \in sig.src <=> cfg.abortable
           /\ "timeout" \in sig.src <=> cfg.hasTimeout
    /\ (~cfg.hasUserSignal /\ ~cfg.abortable /\ ~cfg.hasTimeout) => sig = NoSignal
    /\ (pc \in {"flight", "body"} /\ ext.aborted) => sig.fired # "none"
    /\ ext.aborted => exit # "ok"

\* init.signal fired while the second attempt of an abortable call with a
\* timeout was in flight, and the call ended with the reason of init.signal.
C31_Witness ==
    /\ cfg.hasUserSignal
    /\ cfg.abortable
    /\ cfg.hasTimeout
    /\ pc = "done"
    /\ calls = 2
    /\ liveCalls = 2
    /\ sig.fired = "ext"
    /\ outcome.kind = "err"
    /\ outcome.err.src = "ext"

\* C32: when several cancellation sources fire during one attempt, the
\* failure of the attempt is classified by the one that fired first: the
\* Timeout failure if it was the timeout, the cancellation with the
\* caller's reason if it was task.abort (or init.signal); a failure of an
\* attempt in which none has fired is the underlying error (HTTP status,
\* network, decode).
C32_FirstFiredClassifies ==
    [][(pc \in {"flight", "body"} /\ attempt' = attempt + 1) =>
           /\ result'.kind = "err"
           /\ sig.fired = "timeout" =>
                  result'.err.name = TIMEOUT_ERROR /\ result'.err.src = "timeout"
           /\ sig.fired = "user" => result'.err = CaughtError(ctrl.reason)
           /\ sig.fired = "ext" => result'.err = CaughtError(ext.reason)
           /\ sig.fired = "none" => result'.err.src \in {"http", "network", "decode"}
      ]_vars

\* C33: for each chunk the notifications are issued in a fixed order,
\* onChunk (if registered) and then onProgress (if registered and the total
\* length is known), and the chunks are notified in the order they are read
\* from the stream: in the log of every reader the chunk numbers never
\* decrease, two calls for one chunk are onChunk followed by onProgress,
\* and every chunk read so far has exactly the calls that are due.
C33_NotificationOrder ==
    \A i \in CallIds :
        LET log == obs.log[i]
        IN /\ \A a, b \in 1..Len(log) :
                  a < b =>
                      /\ log[a].chunk <= log[b].chunk
                      /\ log[a].chunk = log[b].chunk =>
                             (log[a].cb = "onChunk" /\ log[b].cb = "onProgress")
           /\ \A k \in 1..obs.bytes[i].n :
                  /\ (\E a \in 1..Len(log) : log[a] = [cb |-> "onChunk", chunk |-> k])
                         <=> hooks.onChunk
                  /\ (\E a \in 1..Len(log) : log[a] = [cb |-> "onProgress", chunk |-> k])
                         <=> (hooks.onProgress /\ rd[i].known)
           /\ \A a \in 1..Len(log) : log[a].chunk \in 1..obs.bytes[i].n

\* Both callbacks are registered, the length is known, and the reader of
\* the first attempt has read a body of MaxChunks chunks to its end.
C33_Witness ==
    /\ hooks.onChunk
    /\ hooks.onProgress
    /\ rd[1].known
    /\ rd[1].st = "ended"
    /\ obs.bytes[1].n = MaxChunks
    /\ Len(obs.log[1]) = 2 * MaxChunks
    /\ obs.log[1][1] = [cb |-> "onChunk", chunk |-> 1]
    /\ obs.log[1][2] = [cb |-> "onProgress", chunk |-> 1]
    /\ exit = "ok"

\* C34: concurrent calls are independent, each abortable call has a master
\* token of its own.  The token of a call has fired only if abort() of its
\* own task was called, and a call ends with the reason of a task.abort()
\* only then; the step in which abort() of one task is called changes
\* nothing of the other call (its outcome, its `aborted` flag, its attempt
\* count, its retry state).
C34_CallsIndependent ==
    /\ [](/\ ctrl.aborted => snap.at # "none"
          /\ (sig.fired = "user" \/ outcome.err.src = "user") => snap.at # "none"
          /\ peer.ctrl.aborted => peer.asked
          /\ (peer.fired \/ peer.outcome.err.src = "user") => peer.asked)
    /\ [][/\ (peer'.asked /\ ~peer.asked) => UNCHANGED thisCall
          /\ (snap'.at # "none" /\ snap.at = "none") => peer' = peer
         ]_vars

\* Both calls were in flight, abort() of the second call's task ended the
\* second call with its AbortError, and the first call went on to retry and
\* ended in success, its own token untouched.
C34_Witness ==
    /\ peer.asked
    /\ peer.pc = "done"
    /\ peer.outcome.kind = "err"
    /\ peer.outcome.err.src = "user"
    /\ snap.at = "none"
    /\ ~ctrl.aborted
    /\ exit = "ok"
    /\ calls = 2
    /\ attempt = 1

\* C35: when every transport call settles and every delay timer fires,
\* every call ends and settles its outcome: the retry loop does not go
\* round between attempt and delay for ever, whatever the retry count and
\* the eligibility policy.
C35_EventuallyDone == <>(pc = "done" /\ outcome.kind # "pending")

\* A call with the largest retry count and a delay has used up its budget:
\* every attempt failed, every delay was waited for, and the call ended.
C35_Witness ==
    /\ pc = "done"
    /\ outcome.kind = "err"
    /\ exit = "exhausted"
    /\ cfg.retries = MaxRetries
    /\ cfg.delay = "pos"
    /\ attempt = MaxRetries + 1

\* What fetchT makes of the arguments init: the error its checks throw
\* (validateUrl first, then validateOptions), or the configuration the
\* call runs with.
Normalized(init) ==
    LET v     == validateOptions(init)
        error == IF validateUrl(init.url, init.hasLocation) # "ok" THEN "TypeError"
                 ELSE v.error
    IN [error |-> error,
        cfg   |-> IF error = "none" THEN MakeConfig(init, v) ELSE NoConfig]

\* retry: n written as retry: { retries: n }.
AsPolicy(init) == [init EXCEPT !.retry = Obj, !.retries = init.retry]

\* The options with retry: 0.
AsZero(init) == [init EXCEPT !.retry = Num("0"), !.retries = Undefined]

\* retry is omitted, or is {}.
NoRetryGiven(init) ==
    \/ init.retry = Undefined
    \/ /\ init.retry = Obj
       /\ init.retries = Undefined
       /\ init.delay = Undefined
       /\ init.when = Undefined
       /\ init.onRetry = Undefined

\* C36: retry: n (a bare count) behaves as retry: { retries: n }, and an
\* omitted retry or retry: {} behaves as retry: 0.  The two forms are
\* rejected alike or give the same configuration, the one the call runs
\* with; the canonical defaults are no retries, no delay, the default
\* eligibility and no onRetry, so such a call makes one attempt.
C36_RetryNormalized ==
    /\ raw.retry.type = "number" =>
           /\ Normalized(raw) = Normalized(AsPolicy(raw))
           /\ pc = "thrown" => Normalized(AsPolicy(raw)).error # "none"
           /\ pc \notin {"call", "thrown"} =>
                  /\ cfg = Normalized(AsPolicy(raw)).cfg
                  /\ cfg.retries = ToCount(raw.retry)
                  /\ cfg.delay = "zero"
                  /\ cfg.when = "none"
                  /\ ~cfg.hasOnRetry
                  /\ calls <= ToCount(raw.retry) + 1
    /\ NoRetryGiven(raw) =>
           /\ Normalized(raw) = Normalized(AsZero(raw))
           /\ pc = "thrown" => Normalized(AsZero(raw)).error # "none"
           /\ pc \notin {"call", "thrown"} =>
                  /\ cfg = Normalized(AsZero(raw)).cfg
                  /\ cfg.retries = 0
                  /\ cfg.delay = "zero"
                  /\ cfg.when = "none"
                  /\ ~cfg.hasOnRetry
                  /\ calls <= 1
                  /\ nOnRetry = 0
                  /\ pc # "delay"

\* retry: 1 has run as retry: { retries: 1 } does: the first attempt
\* failed in the network, the second was made at once, and the call ended
\* with the budget used up.
C36_Witness ==
    /\ raw.retry = Num("1")
    /\ Normalized(AsPolicy(raw)).cfg.retries = 1
    /\ pc = "done"
    /\ calls = 2
    /\ attempt = 2
    /\ exit = "exhausted"
    /\ outcome = ErrResult(NetworkError)

C38_WhenOnlyWithinBudget ==
    /\ [](/\ nWhen <= cfg.retries
          /\ nWhen <= attempt
          /\ cfg.when # "fn" => nWhen = 0)
    /\ [][(nWhen' # nWhen) =>
              /\ nWhen' = nWhen + 1
              /\ pc \in {"flight", "body"}
              /\ result.kind # "ok"
              /\ result'.kind = "err"
              /\ result'.err.name # ABORT_ERROR
              /\ attempt' = attempt + 1
              /\ attempt' <= cfg.retries
         ]_vars

\* The predicate was asked after each of the first MaxRetries failures and
\* accepted them; the last failure, with the budget used up, ended the
\* call without asking it.
C38_Witness ==
    /\ cfg.when = "fn"
    /\ cfg.retries = MaxRetries
    /\ nWhen = MaxRetries
    /\ attempt = MaxRetries + 1
    /\ calls = MaxRetries + 1
    /\ pc = "done"
    /\ exit = "exhausted"

\* C39: the delay between attempts is not interruptible.  While the
\* orchestrator waits in the delay the outcome is pending; a task.abort()
\* called then fires the token and leaves the orchestrator waiting, the
\* outcome still pending; the wait ends only with the timer, and with the
\* token fired that step settles the call as the cancellation failure with
\* the token's reason, without a further transport call.
C39_DelayNotInterruptible ==
    /\ [](pc = "delay" => (outcome = Pending /\ exit = "none"))
    /\ [][(pc = "delay") =>
              /\ \A rk \in ReasonKinds :
                     AbortUser(rk) => (pc' = "delay" /\ outcome' = Pending /\ exit' = "none")
              /\ (pc' # "delay" /\ ctrl.aborted) =>
                     /\ ctrl' = ctrl
                     /\ pc' = "done"
                     /\ exit' = "abortAfterDelay"
                     /\ outcome' = ErrResult(ReasonAsError(ctrl.reason))
                     /\ calls' = calls
              /\ (pc' # "delay" /\ ~ctrl.aborted) => (pc' = "flight" /\ calls' = calls + 1)
         ]_vars

\* task.abort() was called during the delay: the token has fired, and the
\* orchestrator still waits for the timer with the outcome pending.
C39_Witness ==
    /\ pc = "delay"
    /\ snap.at = "delay"
    /\ ctrl.aborted
    /\ outcome = Pending
    /\ cfg.delay = "fn"

====
